-------------------------------- MODULE Access --------------------------------
(***************************************************************************)
(* How devices come to an account and what keeps them there: unlocking     *)
(* against the envelope a device holds, the passphrase changed on one      *)
(* device and adopted on another, the recovery code, pairing, recovery,    *)
(* revocation, and an administrator's switch.                              *)
(*                                                                         *)
(* A key is the phrase it comes from: an envelope opens with its phrase    *)
(* and is otherwise told apart by the nonce it was sealed under, a         *)
(* verifier is the phrase it proves.  The seed never changes and is left   *)
(* out.  Every request is sent, passes the guard of its route, is carried  *)
(* out and is answered, in steps of its own.                               *)
(***************************************************************************)
EXTENDS Naturals, FiniteSets

CONSTANTS Installs,     \* installed plugins, each with a data.json of its own
          OldSpelling,  \* those whose login is stored in a form that is not canonical
          Phrases,
          MaxRows,      \* bound on rows of `devices`
          MaxNonces,    \* bound on envelopes sealed
          MaxPairings,  \* bound on pairings begun
          MovesMidway,  \* whether the address may be changed under another operation
          MaxTurns,     \* bound on locks, moves, revocations, switches, codes, lost
                        \* requests, lost answers and restarts, taken together
          None

ASSUME SpellingsAreOfInstalls == OldSpelling \subseteq Installs

\* One device and the envelope it holds are there from the beginning.
ASSUME BoundsAreNaturals ==
  {MaxRows, MaxNonces} \subseteq Nat \ {0} /\ {MaxPairings, MaxTurns} \subseteq Nat

VARIABLES account,   \* users: the state, and what can open the account
          devices,   \* devices: id -> row
          pairings,  \* device_pairings: id -> row
          data,      \* data.json of an install: the Connection
          session,   \* this.sess of an install
          client,    \* whether its SyncClient has tokens, and whether they are past use
          ask,       \* the operation an install has under way
          told,      \* the phrase a person was last told opens this device
          spent      \* what has been used of the bounded things

server == <<account, devices, pairings>>
vars == <<server, data, session, client, ask, told, spent>>

Envelope == [phrase : Phrases, nonce : 1..MaxNonces]
Row == [revoked : BOOLEAN, refresh : BOOLEAN]
Pairing == [by : Installs, state : {"waiting", "approved", "claimed", "expired"}]
Connection == [device : 1..MaxRows, env : Envelope]

\* `filings` counts the writes of the envelope: it orders what a device saw.
Account == [state : {"active", "disabled"}, env : Envelope, verifier : Phrases,
            code : 0..MaxTurns, filings : Nat]

\* `seen` is the filing this device was last shown or made itself, 0 for none.
Session == [conn : Connection, open : BOOLEAN, stale : BOOLEAN, seen : Nat]

\* Nothing is told from something.
ASSUME NoneIsApart == None \notin Phrases \cup Envelope \cup Connection \cup Session

Bootstraps == {"pair", "recover", "redeem"}
Kinds == Bootstraps \cup {"open", "change", "adopt", "code", "approve", "retire", "leave"}
Anonymous == {"login", "begin", "claim", "recover"}
Authenticated == {"verifier", "passphrase", "envelope", "code", "lookup", "approve", "revoke"}

\* One operation and the request it stands at: `shown` the filing the answer
\* tells of; `target` the device a revocation names.
Ask == [kind : Kinds, step : Anonymous \cup Authenticated \cup {"keep"},
        at : {"sent", "in", "done"},
        phrase : Phrases \cup {None}, env : Envelope \cup {None},
        device : 0..MaxRows, pairing : 0..MaxPairings, code : 0..MaxTurns, shown : Nat,
        target : 0..MaxRows]

------------------------------------------------------------------------------
(* The server's tests.                                                      *)

Made == DOMAIN devices
Live(d) == d \in Made /\ ~devices[d].revoked

\* liveDevice: not revoked, and the account still active.
LiveDevice(d) == Live(d) /\ account.state = "active"

Settled(p) == pairings[p].state \in {"approved", "claimed"}

------------------------------------------------------------------------------
(* An install sends, and is answered or is not.                             *)

Blank == [kind |-> "open", step |-> "login", at |-> "sent", phrase |-> None,
          env |-> None, device |-> 0, pairing |-> 0, code |-> 0, shown |-> 0,
          target |-> 0]

Idle == [Blank EXCEPT !.kind = "idle", !.step = "none", !.at = "none"]

\* The same operation at its next request.
To(a, step) == [a EXCEPT !.step = step, !.at = "sent"]

Send(i, a) == ask' = [ask EXCEPT ![i] = a]
Answer(i, at) == ask' = [ask EXCEPT ![i].at = at]
End(i) == Send(i, Idle)

\* Refused, or nothing answered: the operation throws and leaves nothing on the
\* install.  The repair of a verifier and the parting revocation are attempts
\* whose failure is swallowed.
Fail(i) == IF ask[i].step = "verifier" \/ ask[i].kind = "leave" THEN Answer(i, "done") ELSE End(i)

Free(i) == ask[i] = Idle
IsOpen(i) == session[i] # None /\ session[i].open
Mine(i) == [Blank EXCEPT !.device = session[i].conn.device]

Sealed(phrase) == [phrase |-> phrase, nonce |-> spent.nonces + 1]
CanSeal == spent.nonces < MaxNonces
CanTurn == spent.turns < MaxTurns
OneMore(what) == spent' = [spent EXCEPT ![what] = @ + 1]

\* Every unlocking and every way in starts with a client of its own.
NewClient(i) == client' = [client EXCEPT ![i] = "none"]

NextRow == Cardinality(Made) + 1
Joining == {i \in Installs : ask[i].kind \in Bootstraps}
CanJoin == Cardinality(Made) + Cardinality(Joining) < MaxRows

------------------------------------------------------------------------------
(* What a person starts on an install.                                      *)

\* open: nothing is asked of the server unless the phrase opens what is held.
Unlock(i) ==
    /\ Free(i) /\ session[i] # None /\ ~session[i].open
    /\ Send(i, To([Mine(i) EXCEPT !.phrase = session[i].conn.env.phrase], "login"))
    /\ NewClient(i)
    /\ UNCHANGED <<server, data, session, told, spent>>

\* Mutant: this device moves to the new envelope before the account does.
ChangeHereFirst(i, next) ==
    /\ Free(i) /\ IsOpen(i) /\ CanSeal
    /\ next # session[i].conn.env.phrase
    /\ Send(i, To([Mine(i) EXCEPT !.kind = "change", !.phrase = next, !.env = Sealed(next)],
                  "passphrase"))
    /\ session' = [session EXCEPT ![i].conn.env = Sealed(next), ![i].stale = FALSE]
    /\ OneMore("nonces")
    /\ UNCHANGED <<server, data, client, told>>

\* changePassphrase: the current phrase is checked against the envelope held.
Change(i, next) ==
    /\ Free(i) /\ IsOpen(i) /\ CanSeal
    /\ next # session[i].conn.env.phrase
    /\ Send(i, To([Mine(i) EXCEPT !.kind = "change", !.phrase = next, !.env = Sealed(next)],
                  "passphrase"))
    /\ OneMore("nonces")
    /\ UNCHANGED <<server, data, session, client, told>>

\* adoptEnvelope, offered where the envelope held is behind.
Adopt(i, phrase) ==
    /\ Free(i) /\ IsOpen(i) /\ session[i].stale
    /\ Send(i, To([Mine(i) EXCEPT !.kind = "adopt", !.phrase = phrase], "envelope"))
    /\ UNCHANGED <<server, data, session, client, told, spent>>

CreateRecoveryCode(i) ==
    /\ Free(i) /\ IsOpen(i) /\ CanTurn
    /\ Send(i, To([Mine(i) EXCEPT !.kind = "code", !.code = spent.codes + 1], "code"))
    /\ spent' = [spent EXCEPT !.codes = @ + 1, !.turns = @ + 1]
    /\ UNCHANGED <<server, data, session, client, told>>

\* approvePairing: the code on the other screen names one pairing.
Approve(i, p) ==
    /\ Free(i) /\ IsOpen(i) /\ pairings[p].by # i
    /\ Send(i, To([Mine(i) EXCEPT !.kind = "approve", !.pairing = p], "lookup"))
    /\ UNCHANGED <<server, data, session, client, told, spent>>

\* revokeDevice, of any device in the list.
Retire(i, d) ==
    /\ Free(i) /\ IsOpen(i) /\ Live(d) /\ CanTurn
    /\ Send(i, To([Mine(i) EXCEPT !.kind = "retire", !.target = d], "revoke"))
    /\ OneMore("turns")
    /\ UNCHANGED <<server, data, session, client, told>>

\* Three ways to come with nothing: the phrase is whatever the person types.
Pair(i, phrase) ==
    /\ Free(i) /\ session[i] = None
    /\ spent.pairings < MaxPairings /\ CanSeal /\ CanJoin
    /\ Send(i, [Blank EXCEPT !.kind = "pair", !.step = "begin", !.phrase = phrase,
                             !.env = Sealed(phrase)])
    /\ spent' = [spent EXCEPT !.pairings = @ + 1, !.nonces = @ + 1]
    /\ NewClient(i)
    /\ UNCHANGED <<server, data, session, told>>

Recover(i, phrase) ==
    /\ Free(i) /\ session[i] = None /\ CanJoin
    /\ Send(i, [Blank EXCEPT !.kind = "recover", !.step = "recover", !.phrase = phrase])
    /\ NewClient(i)
    /\ UNCHANGED <<server, data, session, told, spent>>

RecoverWithCode(i, code, phrase) ==
    /\ Free(i) /\ session[i] = None /\ CanSeal /\ CanJoin
    /\ Send(i, [Blank EXCEPT !.kind = "redeem", !.step = "recover", !.code = code,
                             !.phrase = phrase, !.env = Sealed(phrase)])
    /\ OneMore("nonces")
    /\ NewClient(i)
    /\ UNCHANGED <<server, data, session, told>>

\* Mutant: the session goes, the file stays.
ReleasedInMemory(i) ==
    /\ session' = [session EXCEPT ![i] = None]
    /\ client' = [client EXCEPT ![i] = "none"]
    /\ told' = [told EXCEPT ![i] = None]
    /\ UNCHANGED data

Released(i) ==
    /\ data' = [data EXCEPT ![i] = None]
    /\ session' = [session EXCEPT ![i] = None]
    /\ client' = [client EXCEPT ![i] = "none"]
    /\ told' = [told EXCEPT ![i] = None]

\* disconnect: the revocation is attempted by a session that is open.
Disconnect(i) ==
    /\ Free(i) /\ session[i] # None /\ CanTurn
    /\ IF IsOpen(i)
       THEN /\ Send(i, LET a == [Mine(i) EXCEPT !.kind = "leave", !.target = Mine(i).device]
                       IN  To(a, "revoke"))
            /\ UNCHANGED <<data, session, client, told>>
       ELSE Released(i) /\ UNCHANGED ask
    /\ OneMore("turns")
    /\ UNCHANGED server

\* Session.lock, which refuses while a request is in flight.
Lock(i) ==
    /\ Free(i) /\ IsOpen(i) /\ CanTurn
    /\ session' = [session EXCEPT ![i].open = FALSE, ![i].seen = 0]
    /\ client' = [client EXCEPT ![i] = "none"]
    /\ OneMore("turns")
    /\ UNCHANGED <<server, data, ask, told>>

\* The session as a restart or a new address leaves it: the file's, locked.
FromFile(i) ==
    IF data[i] = None THEN None
    ELSE [conn |-> data[i], open |-> FALSE, stale |-> FALSE, seen |-> 0]

\* changeServerUrl: nothing stops it while another operation is under way.
MoveServer(i) ==
    /\ session[i] # None /\ CanTurn /\ (Free(i) \/ MovesMidway)
    /\ session' = [session EXCEPT ![i] = FromFile(i)]
    /\ client' = [client EXCEPT ![i] = "none"]
    /\ OneMore("turns")
    /\ UNCHANGED <<server, data, ask, told>>

------------------------------------------------------------------------------
(* Signing in.                                                              *)

\* POST /auth/login, as far as the reads: the device, and the fingerprint of
\* the envelope the account is behind.
LoginFind(i) ==
    LET a == ask[i] IN
    /\ a.step = "login" /\ a.at = "sent"
    /\ IF LiveDevice(a.device)
       THEN Send(i, IF a.kind = "open"
                    THEN [a EXCEPT !.at = "in", !.env = account.env, !.shown = account.filings]
                    ELSE [a EXCEPT !.at = "in"])
       ELSE Fail(i)
    /\ UNCHANGED <<server, data, session, client, told, spent>>

\* issueRefreshToken: no row is written for a device revoked meanwhile.
Issued(d) == IF Live(d) THEN [devices EXCEPT ![d].refresh = TRUE] ELSE devices

\* The answer carries the tokens all the same; a live row of an account no longer
\* active is refused by its trigger.
LoginIssue(i) ==
    LET d == ask[i].device IN
    /\ ask[i].step = "login" /\ ask[i].at = "in"
    /\ IF Live(d) /\ account.state # "active"
       THEN Fail(i) /\ UNCHANGED devices
       ELSE /\ Answer(i, "done")
            /\ devices' = Issued(d)
    /\ UNCHANGED <<account, pairings, data, session, client, told, spent>>

\* loginAndHold: both tokens are held, and a login kept in an old spelling has
\* the verifier filed again from the key in hand.
LoggedIn(i) ==
    LET a == ask[i] IN
    /\ a.step = "login" /\ a.at = "done"
    /\ client' = [client EXCEPT ![i] = "held"]
    /\ Send(i, IF i \in OldSpelling THEN To(a, "verifier")
               ELSE [a EXCEPT !.step = "verifier", !.at = "done"])
    /\ UNCHANGED <<server, data, session, told, spent>>

\* requireAuth: the signature, then the device's row.  An access token may be
\* past its lifetime at any request.
RequireAuth(i) ==
    LET a == ask[i] IN
    /\ a.step \in Authenticated /\ a.at = "sent"
    /\ IF client[i] = "held" /\ LiveDevice(a.device) THEN Answer(i, "in") ELSE Fail(i)
    /\ UNCHANGED <<server, data, session, client, told, spent>>

\* findDeviceByRefresh: the token names a device that may still act.
MayRefresh(d) == LiveDevice(d) /\ devices[d].refresh

\* send and refreshToken: a request whose token has expired refreshes it and
\* is sent again, once; whatever fails a refresh drops the refresh token.
RefreshToken(i) ==
    LET a == ask[i] IN
    /\ a.step \in Authenticated /\ a.at = "sent" /\ client[i] = "held"
    /\ IF MayRefresh(a.device)
       THEN Answer(i, "in") /\ UNCHANGED client
       ELSE Fail(i) /\ client' = [client EXCEPT ![i] = "spent"]
    /\ UNCHANGED <<server, data, session, told, spent>>

------------------------------------------------------------------------------
(* The handlers behind the guard.                                           *)

Handled(i, step) == ask[i].step = step /\ ask[i].at = "in"
OwnKeys == <<devices, pairings, data, session, client, told, spent>>

\* PUT /auth/kek-verifier: the verifier alone, whatever envelope it stands by.
FileVerifier(i) ==
    /\ Handled(i, "verifier")
    /\ account' = IF account.state = "active"
                  THEN [account EXCEPT !.verifier = ask[i].phrase] ELSE account
    /\ Answer(i, "done")
    /\ UNCHANGED OwnKeys

\* setPassphrase: the envelope and the verifier move together.
Moved(a) == [account EXCEPT !.env = a.env, !.verifier = a.phrase, !.filings = @ + 1]

\* PUT /auth/passphrase: an account that is not active has nothing to move.
SetPassphrase(i) ==
    LET a == ask[i] IN
    /\ Handled(i, "passphrase")
    /\ IF account.state = "active"
       THEN /\ account' = Moved(a)
            /\ Send(i, [a EXCEPT !.at = "done", !.shown = account.filings + 1])
       ELSE Fail(i) /\ UNCHANGED account
    /\ UNCHANGED OwnKeys

\* POST /auth/seed-envelope: to whoever proves the phrase it is behind.
SeedEnvelope(i) ==
    LET a == ask[i] IN
    /\ Handled(i, "envelope")
    /\ IF account.state = "active" /\ account.verifier = a.phrase
       THEN Send(i, [a EXCEPT !.at = "done", !.env = account.env, !.shown = account.filings])
       ELSE Fail(i)
    /\ UNCHANGED <<account, OwnKeys>>

\* setRecoveryCode: the hash and the envelope under it, in one statement.
CodeSet(code) == [account EXCEPT !.code = code]

\* PUT /auth/recovery-code.
SetRecoveryCode(i) ==
    /\ Handled(i, "code")
    /\ IF account.state = "active"
       THEN account' = CodeSet(ask[i].code) /\ End(i)
       ELSE Fail(i) /\ UNCHANGED account
    /\ UNCHANGED OwnKeys

\* lookupPairing: nobody has approved it and its minutes are not over.
Waiting(p) == pairings[p].state = "waiting"

LookupPairing(i) ==
    /\ Handled(i, "lookup")
    /\ IF Waiting(ask[i].pairing) THEN Answer(i, "done") ELSE Fail(i)
    /\ UNCHANGED <<account, OwnKeys>>

\* approvePairing: the row is locked as it is read, so one approval binds it.
Bound(p) == [pairings EXCEPT ![p].state = "approved"]

ApprovePairing(i) ==
    LET p == ask[i].pairing IN
    /\ Handled(i, "approve")
    /\ IF Waiting(p)
       THEN pairings' = Bound(p) /\ End(i)
       ELSE Fail(i) /\ UNCHANGED pairings
    /\ UNCHANGED <<account, devices, data, session, client, told, spent>>

\* A revocation clears the refresh token with it.
Revoked(d) == [devices EXCEPT ![d] = [revoked |-> TRUE, refresh |-> FALSE]]

RevokeDevice(i) ==
    /\ Handled(i, "revoke")
    /\ devices' = IF Live(ask[i].target) THEN Revoked(ask[i].target) ELSE devices
    /\ IF ask[i].kind = "leave" THEN Answer(i, "done") ELSE End(i)
    /\ UNCHANGED <<account, pairings, data, session, client, told, spent>>

------------------------------------------------------------------------------
(* Coming with nothing.                                                     *)

BeginPairing(i) ==
    /\ ask[i].step = "begin" /\ ask[i].at = "sent"
    /\ LET p == Cardinality(DOMAIN pairings) + 1 IN
       /\ pairings' = [q \in DOMAIN pairings \cup {p} |->
                         IF q = p THEN [by |-> i, state |-> "waiting"] ELSE pairings[q]]
       /\ Send(i, [ask[i] EXCEPT !.at = "done", !.pairing = p])
    /\ UNCHANGED <<account, devices, data, session, client, told, spent>>

Expire(p) ==
    /\ pairings[p].state \in {"waiting", "approved"}
    /\ pairings' = [pairings EXCEPT ![p].state = "expired"]
    /\ UNCHANGED <<account, devices, data, session, client, ask, told, spent>>

\* claimPairing, as far as its reads.
Claimable(p) == pairings[p].state = "approved" /\ account.state = "active"

\* POST /auth/pairings/:id/claim: not approved yet is a state to wait in.
ClaimFind(i) ==
    LET p == ask[i].pairing IN
    /\ ask[i].step = "claim" /\ ask[i].at = "sent"
    /\ CASE Waiting(p) -> Answer(i, "done")
         [] Claimable(p) -> Answer(i, "in")
         [] OTHER -> Fail(i)
    /\ UNCHANGED <<server, data, session, client, told, spent>>

\* recoverAccount, as far as its reads: one proof, of an account still active.
Proves(a) ==
    /\ account.state = "active"
    /\ IF a.kind = "recover" THEN account.verifier = a.phrase ELSE account.code = a.code

\* POST /auth/recover: the envelope the proof opens, and no other.
RecoverFind(i) ==
    LET a == ask[i] IN
    /\ a.step = "recover" /\ a.at = "sent"
    /\ IF Proves(a)
       THEN Send(i, [a EXCEPT !.at = "in", !.shown = account.filings,
                              !.env = IF a.kind = "recover" THEN account.env ELSE a.env])
       ELSE Fail(i)
    /\ UNCHANGED <<server, data, session, client, told, spent>>

\* The INSERT and the commit.  An administrator's switch may have committed
\* since the account was read: the trigger reads the state too, and may still
\* have been early enough to find it active.
MakeDevice(i) ==
    LET a == ask[i] IN
    /\ a.step \in {"claim", "recover"} /\ a.at = "in"
    /\ \/ /\ devices' = [d \in Made \cup {NextRow} |->
                           IF d = NextRow THEN [revoked |-> FALSE, refresh |-> FALSE]
                           ELSE devices[d]]
          /\ pairings' = IF a.step = "claim"
                         THEN [pairings EXCEPT ![a.pairing].state = "claimed"] ELSE pairings
          /\ Send(i, [a EXCEPT !.at = "done", !.device = NextRow])
       \/ /\ account.state # "active"
          /\ Fail(i)
          /\ UNCHANGED <<devices, pairings>>
    /\ UNCHANGED <<account, data, session, client, told, spent>>

\* pair and recover, between their requests.  An envelope the accepted proof
\* does not open ends a recovery.
Proceed(i) ==
    LET a == ask[i]
        made == a.device \in Made IN
    /\ a.step \in {"begin", "claim", "recover"} /\ a.at = "done"
    /\ Send(i, CASE a.step = "begin" -> To(a, "claim")
                 [] a.step = "claim" /\ ~made -> To(a, "claim")
                 [] a.step = "claim" /\ made -> To(a, "login")
                 [] a.step = "recover" -> IF a.env.phrase = a.phrase THEN To(a, "login")
                                          ELSE Idle)
    /\ UNCHANGED <<server, data, session, client, told, spent>>

\* poll answers that the person no longer waits.
CancelPairing(i) ==
    /\ ask[i].step = "claim" /\ ask[i].at = "done" /\ ask[i].device \notin Made
    /\ Fail(i)
    /\ UNCHANGED <<server, data, session, client, told, spent>>

------------------------------------------------------------------------------
(* What an install does with the answer.                                    *)

Done(i, kind, step) == ask[i].kind = kind /\ ask[i].step = step /\ ask[i].at = "done"

\* The repair is over, however it ended: what follows the login.
AfterRepair(i) == ask[i].step = "verifier" /\ ask[i].at = "done"

\* open, its end: the fingerprint is held against the envelope just opened.
Opened(i) ==
    LET a == ask[i] IN
    /\ a.kind = "open" /\ AfterRepair(i)
    /\ session' = [session EXCEPT ![i].open = TRUE, ![i].seen = a.shown,
                                  ![i].stale = a.env # session[i].conn.env]
    /\ End(i)
    /\ UNCHANGED <<server, data, client, told, spent>>

\* recoverWithCode gives the account its new phrase before anything else.
SetsNewPhrase(i) ==
    /\ ask[i].kind = "redeem" /\ AfterRepair(i)
    /\ Send(i, To(ask[i], "passphrase"))
    /\ UNCHANGED <<server, data, session, client, told, spent>>

\* finishBootstrap and take: the connection is written down.
Take(i) ==
    LET a == ask[i]
        conn == [device |-> a.device, env |-> a.env] IN
    /\ \/ a.kind \in {"pair", "recover"} /\ AfterRepair(i)
       \/ Done(i, "redeem", "passphrase")
    /\ data' = [data EXCEPT ![i] = conn]
    /\ session' = [session EXCEPT ![i] =
                     [conn |-> conn, open |-> TRUE, stale |-> FALSE, seen |-> a.shown]]
    /\ told' = [told EXCEPT ![i] = a.phrase]
    /\ End(i)
    /\ UNCHANGED <<server, client, spent>>

Holds(i, env, shown) ==
    session' = [session EXCEPT ![i].conn.env = env, ![i].stale = FALSE, ![i].seen = shown]

\* Mutant: the envelope is not kept.
ChangedUnkept(i) ==
    /\ Done(i, "change", "passphrase")
    /\ Holds(i, ask[i].env, ask[i].shown)
    /\ told' = [told EXCEPT ![i] = ask[i].phrase]
    /\ End(i)
    /\ UNCHANGED <<server, data, client, spent>>

\* changePassphrase, after the server has it: this device is current.
Changed(i) ==
    /\ Done(i, "change", "passphrase")
    /\ Holds(i, ask[i].env, ask[i].shown)
    /\ Send(i, To(ask[i], "keep"))
    /\ UNCHANGED <<server, data, client, told, spent>>

\* adoptEnvelope: opened before it is held.
Adopted(i) ==
    LET a == ask[i] IN
    /\ Done(i, "adopt", "envelope")
    /\ IF a.env.phrase = a.phrase
       THEN Holds(i, a.env, a.shown) /\ Send(i, To(a, "keep"))
       ELSE UNCHANGED session /\ Fail(i)
    /\ UNCHANGED <<server, data, client, told, spent>>

\* keepEnvelope: whatever the session held by then has goes to the file, and
\* the person is told that the phrase they typed is the one from now on.
Keep(i) ==
    /\ ask[i].step = "keep"
    /\ data' = [data EXCEPT ![i] = session[i].conn]
    /\ told' = [told EXCEPT ![i] = ask[i].phrase]
    /\ End(i)
    /\ UNCHANGED <<server, session, client, spent>>

\* approvePairing seals to the key the lookup gave.
SealSeed(i) ==
    /\ Done(i, "approve", "lookup")
    /\ Send(i, To(ask[i], "approve"))
    /\ UNCHANGED <<server, data, session, client, told, spent>>

\* The local half is what disconnecting means.
Leave(i) ==
    /\ ask[i].kind = "leave" /\ ask[i].at = "done"
    /\ Released(i)
    /\ End(i)
    /\ UNCHANGED <<server, spent>>

------------------------------------------------------------------------------
(* The administrator and the faults.                                        *)

\* setEnabled: the devices are revoked first, their refresh tokens left as
\* they are, and switching on again gives none of them back.
Disable ==
    /\ account.state = "active" /\ CanTurn
    /\ account' = [account EXCEPT !.state = "disabled"]
    /\ devices' = [d \in Made |-> [devices[d] EXCEPT !.revoked = TRUE]]
    /\ OneMore("turns")
    /\ UNCHANGED <<pairings, data, session, client, ask, told>>

Enable ==
    /\ account.state = "disabled"
    /\ account' = [account EXCEPT !.state = "active"]
    /\ UNCHANGED <<devices, pairings, data, session, client, ask, told, spent>>

\* A request, or the answer to one, that does not arrive.
Lose(i) ==
    /\ CanTurn
    /\ ask[i].step # "keep" /\ ask[i].at \in {"sent", "done"}
    /\ Fail(i)
    /\ OneMore("turns")
    /\ UNCHANGED <<server, data, session, client, told>>

\* A refresh that nothing answers drops the refresh token as well.
LoseRefresh(i) ==
    /\ CanTurn
    /\ ask[i].step \in Authenticated /\ ask[i].at = "sent"
    /\ client[i] = "held"
    /\ client' = [client EXCEPT ![i] = "spent"]
    /\ Fail(i)
    /\ OneMore("turns")
    /\ UNCHANGED <<server, data, session, told>>

\* Obsidian closes, or reloads the plugin.
Restart(i) ==
    /\ CanTurn
    /\ session[i] # None \/ ask[i] # Idle
    /\ session' = [session EXCEPT ![i] = FromFile(i)]
    /\ client' = [client EXCEPT ![i] = "none"]
    /\ End(i)
    /\ OneMore("turns")
    /\ UNCHANGED <<server, data, told>>

------------------------------------------------------------------------------
(* One install is connected already, the others hold nothing.               *)

Init ==
    \E i \in Installs, phrase \in Phrases : LET env == [phrase |-> phrase, nonce |-> 1] IN
    /\ account = [state |-> "active", env |-> env, verifier |-> phrase,
                  code |-> 0, filings |-> 1]
    /\ devices = [d \in {1} |-> [revoked |-> FALSE, refresh |-> TRUE]]
    /\ pairings = [p \in {} |-> None]
    /\ data = [j \in Installs |-> IF j = i THEN [device |-> 1, env |-> env] ELSE None]
    /\ session = [j \in Installs |-> IF j = i
                    THEN [conn |-> data[i], open |-> TRUE, stale |-> FALSE, seen |-> 1]
                    ELSE None]
    /\ client = [j \in Installs |-> IF j = i THEN "held" ELSE "none"]
    /\ ask = [j \in Installs |-> Idle]
    /\ told = [j \in Installs |-> IF j = i THEN phrase ELSE None]
    /\ spent = [nonces |-> 1, codes |-> 0, pairings |-> 0, turns |-> 0]

Starts(i) ==
    \/ Unlock(i) \/ CreateRecoveryCode(i) \/ Disconnect(i) \/ Lock(i) \/ MoveServer(i)
    \/ \E phrase \in Phrases : \/ Change(i, phrase) \/ Adopt(i, phrase)
                              \/ Pair(i, phrase) \/ Recover(i, phrase)
                              \/ \E code \in 1..spent.codes : RecoverWithCode(i, code, phrase)
    \/ \E p \in DOMAIN pairings : Approve(i, p)
    \/ \E d \in Made : Retire(i, d)

Serves(i) ==
    \/ LoginFind(i) \/ LoginIssue(i) \/ RequireAuth(i)
    \/ FileVerifier(i) \/ SetPassphrase(i) \/ SeedEnvelope(i) \/ SetRecoveryCode(i)
    \/ LookupPairing(i) \/ ApprovePairing(i) \/ RevokeDevice(i)
    \/ BeginPairing(i) \/ ClaimFind(i) \/ RecoverFind(i) \/ MakeDevice(i)

Continues(i) ==
    \/ LoggedIn(i) \/ RefreshToken(i) \/ Proceed(i) \/ Opened(i) \/ SetsNewPhrase(i) \/ Take(i)
    \/ Changed(i) \/ Adopted(i) \/ Keep(i) \/ SealSeed(i)
    \/ Leave(i)

Next ==
    \/ \E i \in Installs :
        \/ Starts(i) \/ Lose(i) \/ LoseRefresh(i) \/ Restart(i)
        \/ Serves(i) \/ Continues(i) \/ CancelPairing(i)
    \/ \E p \in DOMAIN pairings : Expire(p)
    \/ Disable \/ Enable

Spec == Init /\ [][Next]_vars

------------------------------------------------------------------------------
TypeOK ==
    /\ account \in Account
    /\ Made = 1..Cardinality(Made) /\ Made \subseteq 1..MaxRows
    /\ \A d \in Made : devices[d] \in Row
    /\ DOMAIN pairings \subseteq 1..MaxPairings
    /\ \A p \in DOMAIN pairings : pairings[p] \in Pairing
    /\ \A i \in Installs :
         /\ data[i] \in Connection \cup {None}
         /\ data[i] = None <=> session[i] = None
         /\ session[i] \in Session \cup {None}
         /\ client[i] \in {"none", "held", "spent"}
         /\ ask[i] \in Ask \cup {Idle}
         /\ told[i] \in Phrases \cup {None}
    /\ spent.nonces <= MaxNonces /\ spent.turns <= MaxTurns

------------------------------------------------------------------------------
(* Safety.                                                                  *)

\* A device that is not told it is behind is not behind, except by a change
\* made after it last saw the account's envelope.
BehindIsMarked ==
    \A i \in Installs :
        IsOpen(i) /\ Free(i) /\ ~session[i].stale
            /\ session[i].conn.env.phrase # account.env.phrase
        => session[i].seen < account.filings

\* The phrase a person was last told is theirs opens this device after a
\* restart.
ToldIsKept ==
    \A i \in Installs : told[i] # None => data[i] # None /\ data[i].env.phrase = told[i]
=============================================================================
