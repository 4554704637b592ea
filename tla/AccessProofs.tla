----------------------------- MODULE AccessProofs -----------------------------
(***************************************************************************)
(* Proofs about who gets in, for any bounds: the devices and phrases of an *)
(* account (Access), and the accounts of a server (Accounts).              *)
(*                                                                         *)
(* A device that is behind is told so, and a phrase a person was told is   *)
(* theirs opens the device after a restart.  Both rest on what an          *)
(* operation carries from one request to the next (`Carries`): the phrase  *)
(* its envelope is under, the device that was made for it, the filing its  *)
(* envelope was shown with.                                                *)
(*                                                                         *)
(* No session of the console outlives the password it was opened with, and *)
(* nobody loses a version to the departure or the deletion of somebody     *)
(* else.  A history is only ever replaced by another one when its owner    *)
(* joins.  That nothing is lost there is not in the statement that does    *)
(* it: it is the schema's rules and the cascade of a deletion together     *)
(* that leave an account without a past whenever it can still be invited.  *)
(***************************************************************************)
EXTENDS Access, Accounts, SequenceTheorems, FiniteSetTheorems, TLAPS

------------------------------------------------------------------------------
(* The types.                                                               *)

AccountTyped == account \in Account /\ account.filings > 0

DevicesTyped ==
    /\ Cardinality(Made) \in 0..MaxRows /\ Made = 1..Cardinality(Made)
    /\ \A d \in Made : devices[d] \in Row

PairingsTyped ==
    /\ Cardinality(DOMAIN pairings) \in 0..MaxPairings
    /\ DOMAIN pairings = 1..Cardinality(DOMAIN pairings)
    /\ \A p \in DOMAIN pairings : pairings[p] \in Pairing

SpentTyped ==
    /\ spent \in [nonces : 0..MaxNonces, codes : 0..MaxTurns, pairings : 0..MaxPairings,
                  turns : 0..MaxTurns]
    /\ spent.codes <= spent.turns

InstallsTyped ==
    /\ data \in [Installs -> Connection \cup {None}]
    /\ session \in [Installs -> Session \cup {None}]
    /\ \A i \in Installs : data[i] = None <=> session[i] = None
    /\ client \in [Installs -> {"none", "held", "spent"}]
    /\ told \in [Installs -> Phrases \cup {None}]

\* The envelope of an operation opens with its phrase.
Fits(a) == a.env \in Envelope /\ a.env.phrase = a.phrase

\* A way in has no device until one is made for it.
ComesWithNothing(a, made) ==
    /\ a.device \in made \cup {0}
    /\ \/ a.step = "begin"
       \/ a.step \in {"claim", "recover"} /\ a.at # "done"
       => a.device = 0
    /\ \/ a.step \in {"login", "verifier", "passphrase"}
       \/ (a.step = "recover" /\ a.at = "done")
       => a.device # 0

\* What each operation carries at the request it stands at, where those are the
\* devices made and the pairings begun.
Opening(a) ==
    /\ a.kind = "open" /\ a.step \in {"login", "verifier"} /\ a.phrase \in Phrases
    /\ a.step = "verifier" \/ a.at # "sent" => a.env \in Envelope

Changing(a) ==
    /\ a.kind = "change" /\ a.step \in {"passphrase", "keep"}
    /\ a.phrase \in Phrases /\ Fits(a)

Adopting(a) ==
    /\ a.kind = "adopt" /\ a.step \in {"envelope", "keep"} /\ a.phrase \in Phrases
    /\ a.step = "keep" \/ a.at = "done" => a.env \in Envelope
    /\ a.step = "keep" => Fits(a)

Approving(a, begun) ==
    /\ a.kind = "approve" /\ a.step \in {"lookup", "approve"}
    /\ a.pairing \in begun

Acting(a) ==
    \/ a.kind = "code" /\ a.step = "code"
    \/ a.kind \in {"retire", "leave"} /\ a.step = "revoke"

Pairs(a, made, begun) ==
    /\ a.kind = "pair" /\ a.step \in {"begin", "claim", "login", "verifier"}
    /\ a.phrase \in Phrases /\ Fits(a) /\ a.shown = 0
    /\ (a.step = "begin" /\ a.at = "sent") \/ a.pairing \in begun
    /\ ComesWithNothing(a, made)

Recovering(a, made) ==
    /\ a.kind = "recover" /\ a.step \in {"recover", "login", "verifier"}
    /\ a.phrase \in Phrases /\ ComesWithNothing(a, made)
    /\ (a.step = "recover" /\ a.at = "sent") \/ a.env \in Envelope
    /\ a.step # "recover" => Fits(a)

Redeeming(a, made) ==
    /\ a.kind = "redeem" /\ a.step \in {"recover", "login", "verifier", "passphrase"}
    /\ a.phrase \in Phrases /\ Fits(a) /\ ComesWithNothing(a, made)

Carries(a, made, begun) ==
    \/ Opening(a) \/ Changing(a) \/ Adopting(a) \/ Approving(a, begun) \/ Acting(a)
    \/ Pairs(a, made, begun) \/ Recovering(a, made) \/ Redeeming(a, made)

AsksTyped ==
    /\ ask \in [Installs -> Ask \cup {Idle}]
    /\ \A i \in Installs : ask[i] # Idle =>
         Carries(ask[i], Made, DOMAIN pairings) /\ (ask[i].kind \in Bootstraps \/ session[i] # None)

------------------------------------------------------------------------------
(* Room for what is under way.                                              *)

\* Who is still to get a device, and who is still to begin a pairing.
Unmade == {i \in Joining : ask[i].device = 0}
Beginning == {i \in Installs : ask[i].step = "begin" /\ ask[i].at = "sent"}

RowsLeft == IsFiniteSet(Joining) /\ Cardinality(Made) + Cardinality(Unmade) <= MaxRows

PairingsLeft ==
    /\ IsFiniteSet(Beginning)
    /\ Cardinality(DOMAIN pairings) + Cardinality(Beginning) <= spent.pairings

------------------------------------------------------------------------------
(* The invariants.                                                          *)

\* The envelope of this operation is the one the account had at the filing shown.
WasShown(a) ==
    \/ a.kind = "open" /\ (a.step = "verifier" \/ a.at # "sent")
    \/ a.kind \in {"change", "adopt"} /\ (a.step = "keep" \/ a.at = "done")
    \/ a.kind = "recover" /\ (a.step # "recover" \/ a.at # "sent")
    \/ a.kind = "redeem" /\ a.step = "passphrase" /\ a.at = "done"

ShownIsSo ==
    \A i \in Installs :
        /\ ask[i].shown <= account.filings
        /\ WasShown(ask[i]) /\ ask[i].shown = account.filings => ask[i].env = account.env

SeenIsSo ==
    \A i \in Installs : IsOpen(i) =>
        /\ session[i].seen <= account.filings
        /\ ~session[i].stale /\ session[i].seen = account.filings
           => session[i].conn.env = account.env

\* What is about to be kept is what the person typed.
KeptIsTyped ==
    \A i \in Installs : ask[i].step = "keep" =>
        session[i] # None /\ session[i].conn.env.phrase = ask[i].phrase

------------------------------------------------------------------------------
(* The bounds, and what can be told from what.                              *)

LEMMA Bounds ==
    /\ MaxRows \in Nat /\ MaxNonces \in Nat /\ MaxPairings \in Nat /\ MaxTurns \in Nat
    /\ MaxRows > 0 /\ MaxNonces > 0
    /\ 1 \in 1..MaxRows /\ 1 \in 1..MaxNonces /\ 0 \in 0..MaxRows
    /\ 0 \in 0..MaxPairings /\ 0 \in 0..MaxTurns
<1>1. /\ MaxRows \in Nat /\ MaxNonces \in Nat /\ MaxPairings \in Nat /\ MaxTurns \in Nat
      /\ MaxRows > 0 /\ MaxNonces > 0
  BY BoundsAreNaturals
<1>2. QED
  BY <1>1

LEMMA Blanks ==
    /\ Blank \in Ask /\ Idle \notin Ask
    /\ Idle.step = "none" /\ Idle.at = "none" /\ Idle.kind = "idle"
    /\ Idle.device = 0 /\ Idle.shown = 0
<1>1. Blank \in Ask
  BY Bounds DEF Blank, Ask, Kinds, Bootstraps, Anonymous
<1>2. /\ Idle.step = "none" /\ Idle.at = "none" /\ Idle.kind = "idle"
      /\ Idle.device = 0 /\ Idle.shown = 0
  BY DEF Idle, Blank
<1>3. \A a \in Ask : a.kind # "idle"
  BY DEF Ask, Kinds, Bootstraps
<1>4. QED
  BY <1>1, <1>2, <1>3

LEMMA Steps ==
    ASSUME [Next]_vars
    PROVE  \/ \E i \in Installs :
                \/ Unlock(i) \/ CreateRecoveryCode(i) \/ Disconnect(i) \/ Lock(i)
                \/ MoveServer(i) \/ Restart(i) \/ Lose(i) \/ LoseRefresh(i)
                \/ \E phrase \in Phrases : \/ Change(i, phrase) \/ Adopt(i, phrase)
                                          \/ Pair(i, phrase) \/ Recover(i, phrase)
                \/ \E phrase \in Phrases, code \in 1..spent.codes :
                     RecoverWithCode(i, code, phrase)
                \/ \E p \in DOMAIN pairings : Approve(i, p)
                \/ \E d \in Made : Retire(i, d)
           \/ \E i \in Installs :
                \/ LoginFind(i) \/ LoginIssue(i) \/ RequireAuth(i)
                \/ FileVerifier(i) \/ SetPassphrase(i) \/ SeedEnvelope(i)
                \/ SetRecoveryCode(i) \/ LookupPairing(i) \/ ApprovePairing(i)
                \/ RevokeDevice(i) \/ BeginPairing(i) \/ ClaimFind(i) \/ RecoverFind(i)
                \/ MakeDevice(i)
           \/ \E i \in Installs :
                \/ LoggedIn(i) \/ RefreshToken(i) \/ Proceed(i) \/ CancelPairing(i)
                \/ Opened(i) \/ SetsNewPhrase(i) \/ Take(i) \/ Changed(i) \/ Adopted(i)
                \/ Keep(i) \/ SealSeed(i) \/ Leave(i)
           \/ (\E p \in DOMAIN pairings : Expire(p)) \/ Disable \/ Enable
           \/ UNCHANGED vars
BY DEF Next, Starts, Serves, Continues

------------------------------------------------------------------------------
(* Requests.                                                                *)

\* An operation stays what it is at another request, or at another stage of one.
LEMMA AskParts ==
    ASSUME NEW a \in Ask
    PROVE  /\ a.kind \in Kinds /\ a.step \in Anonymous \cup Authenticated \cup {"keep"}
           /\ a.at \in {"sent", "in", "done"} /\ a.phrase \in Phrases \cup {None}
           /\ a.env \in Envelope \cup {None} /\ a.device \in 0..MaxRows
           /\ a.pairing \in 0..MaxPairings /\ a.code \in 0..MaxTurns /\ a.shown \in Nat
           /\ a.target \in 0..MaxRows
BY DEF Ask

LEMMA AnotherStage ==
    ASSUME NEW a \in Ask, NEW at \in {"sent", "in", "done"}
    PROVE  /\ [a EXCEPT !.at = at] \in Ask /\ [a EXCEPT !.at = at].at = at
           /\ [a EXCEPT !.at = at].kind = a.kind /\ [a EXCEPT !.at = at].step = a.step
           /\ [a EXCEPT !.at = at].phrase = a.phrase /\ [a EXCEPT !.at = at].env = a.env
           /\ [a EXCEPT !.at = at].device = a.device
           /\ [a EXCEPT !.at = at].pairing = a.pairing
           /\ [a EXCEPT !.at = at].shown = a.shown
BY DEF Ask

LEMMA AnotherRequest ==
    ASSUME NEW a \in Ask, NEW step \in Anonymous \cup Authenticated \cup {"keep"}
    PROVE  /\ To(a, step) \in Ask /\ To(a, step).at = "sent"
           /\ To(a, step).kind = a.kind /\ To(a, step).step = step
           /\ To(a, step).phrase = a.phrase /\ To(a, step).env = a.env
           /\ To(a, step).device = a.device
           /\ To(a, step).pairing = a.pairing /\ To(a, step).shown = a.shown
BY DEF Ask, To

\* The person's operations begin from these.
LEMMA Mines ==
    ASSUME InstallsTyped, NEW i \in Installs, session[i] # None
    PROVE  /\ session[i] \in Session /\ session[i].conn \in Connection
           /\ session[i].conn.env \in Envelope /\ session[i].conn.env.phrase \in Phrases
           /\ Mine(i) \in Ask /\ Mine(i) = [Blank EXCEPT !.device = session[i].conn.device]
<1>1. session[i] \in Session
  BY DEF InstallsTyped
<1>2. session[i].conn \in Connection
  BY <1>1 DEF Session
<1>3. session[i].conn.env \in Envelope /\ session[i].conn.device \in 1..MaxRows
  BY <1>2 DEF Connection
<1>4. session[i].conn.env.phrase \in Phrases
  BY <1>3 DEF Envelope
<1>5. session[i].conn.device \in 0..MaxRows
  BY <1>3, Bounds
<1>6. [Blank EXCEPT !.device = session[i].conn.device] \in Ask
  BY <1>5, Blanks DEF Ask
<1>7. QED
  BY <1>1, <1>2, <1>3, <1>4, <1>6 DEF Mine

LEMMA Sealing ==
    ASSUME SpentTyped, CanSeal, NEW phrase \in Phrases
    PROVE  Sealed(phrase) \in Envelope /\ Sealed(phrase).phrase = phrase
<1>1. spent.nonces + 1 \in 1..MaxNonces
  BY Bounds DEF SpentTyped, CanSeal
<1>2. QED
  BY <1>1 DEF Sealed, Envelope

\* What is carried with some devices made and some pairings begun is with more.
LEMMA CarriesOn ==
    ASSUME NEW a, NEW made, NEW made2, made \subseteq made2,
           NEW begun, NEW begun2, begun \subseteq begun2, Carries(a, made, begun)
    PROVE  Carries(a, made2, begun2)
BY DEF Carries, Approving, Pairs, Recovering, Redeeming, ComesWithNothing

\* No device and no pairing is forgotten.
LEMMA Grown ==
    ASSUME [Next]_vars
    PROVE  Made \subseteq Made' /\ DOMAIN pairings \subseteq DOMAIN pairings'
<1> DEFINE Goal == Made \subseteq Made' /\ DOMAIN pairings \subseteq DOMAIN pairings'
<1>1. ASSUME NEW i \in Installs, LoginIssue(i) PROVE Goal
  BY <1>1 DEF LoginIssue, Issued, Made
<1>2. ASSUME NEW i \in Installs, ApprovePairing(i) PROVE Goal
  BY <1>2 DEF ApprovePairing, Bound, Made
<1>3. ASSUME NEW i \in Installs, RevokeDevice(i) PROVE Goal
  BY <1>3 DEF RevokeDevice, Revoked, Made
<1>4. ASSUME NEW i \in Installs, BeginPairing(i) PROVE Goal
  BY <1>4 DEF BeginPairing, Made
<1>5. ASSUME NEW i \in Installs, MakeDevice(i) PROVE Goal
  BY <1>5 DEF MakeDevice, Made
<1>6. ASSUME NEW p \in DOMAIN pairings, Expire(p) PROVE Goal
  BY <1>6 DEF Expire, Made
<1>7. ASSUME Disable PROVE Goal
  BY <1>7 DEF Disable, Made
<1>8. \/ \E i \in Installs : \/ LoginIssue(i) \/ ApprovePairing(i) \/ RevokeDevice(i)
                             \/ BeginPairing(i) \/ MakeDevice(i)
      \/ (\E p \in DOMAIN pairings : Expire(p)) \/ Disable
      \/ UNCHANGED <<devices, pairings>>
  BY Steps, ZenonT(60) DEF Unlock, CreateRecoveryCode, Disconnect, Lock, MoveServer, Restart, Lose,
     LoseRefresh, Change, Adopt, Pair, Recover, RecoverWithCode, Approve, Retire, LoginFind,
     RequireAuth, FileVerifier, SetPassphrase, SeedEnvelope, SetRecoveryCode, LookupPairing,
     ClaimFind, RecoverFind, LoggedIn, RefreshToken, Proceed, CancelPairing, Opened,
     SetsNewPhrase, Take, Changed, Adopted, Keep, SealSeed, Leave, Enable, vars, server, OwnKeys
<1>9. QED
  BY <1>1, <1>2, <1>3, <1>4, <1>5, <1>6, <1>7, <1>8 DEF Made

\* One install asks something else, or nothing.
LEMMA Asked ==
    ASSUME AsksTyped, [Next]_vars, NEW i \in Installs, NEW x \in Ask \cup {Idle},
           ask' = [ask EXCEPT ![i] = x],
           \A j \in Installs \ {i} : session'[j] = session[j],
           x # Idle => /\ Carries(x, Made', DOMAIN pairings')
                       /\ x.kind \in Bootstraps \/ session'[i] # None
    PROVE  AsksTyped'
<1>1. ask' \in [Installs -> Ask \cup {Idle}]
  BY DEF AsksTyped
<1>2. \A j \in Installs \ {i} : ask'[j] = ask[j]
  BY DEF AsksTyped
<1>3. ask'[i] = x
  BY DEF AsksTyped
<1>4. ASSUME NEW j \in Installs \ {i}, ask[j] # Idle
      PROVE  /\ Carries(ask[j], Made', DOMAIN pairings')
             /\ ask[j].kind \in Bootstraps \/ session'[j] # None
  BY <1>4, Grown, CarriesOn DEF AsksTyped
<1>5. \A j \in Installs : ask'[j] # Idle =>
        /\ Carries(ask'[j], Made', DOMAIN pairings')
        /\ ask'[j].kind \in Bootstraps \/ session'[j] # None
  BY <1>2, <1>3, <1>4
<1>6. QED
  BY <1>1, <1>5 DEF AsksTyped, Made

\* A refusal ends an operation, or is swallowed where it does not matter.
LEMMA Refused ==
    ASSUME AsksTyped, [Next]_vars, NEW i \in Installs, ask[i] # Idle, Fail(i),
           \A j \in Installs : session'[j] = session[j]
    PROVE  AsksTyped'
<1>1. /\ ask[i] \in Ask /\ Carries(ask[i], Made, DOMAIN pairings)
      /\ ask[i].kind \in Bootstraps \/ session[i] # None
  BY DEF AsksTyped
<1> DEFINE x == [ask[i] EXCEPT !.at = "done"]
<1>2. CASE ask' = [ask EXCEPT ![i] = Idle]
  BY <1>2, Asked
<1>3. CASE /\ ask' = [ask EXCEPT ![i].at = "done"]
           /\ ask[i].step = "verifier" \/ ask[i].kind = "leave"
  <2>1. /\ x \in Ask /\ x.at = "done" /\ x.kind = ask[i].kind /\ x.step = ask[i].step
        /\ x.phrase = ask[i].phrase /\ x.env = ask[i].env /\ x.device = ask[i].device
        /\ x.pairing = ask[i].pairing /\ x.shown = ask[i].shown
    BY <1>1, AnotherStage
  <2>2. ask' = [ask EXCEPT ![i] = x]
    BY <1>3 DEF AsksTyped
  <2> HIDE DEF x
  <2>3. Carries(x, Made, DOMAIN pairings)
    BY <1>1, <1>3, <2>1 DEF Carries, Opening, Changing, Adopting, Approving, Acting, Pairs,
       Recovering, Redeeming, ComesWithNothing, Fits
  <2>4. Carries(x, Made', DOMAIN pairings')
    BY <2>3, Grown, CarriesOn
  <2>5. QED
    BY <1>1, <2>1, <2>2, <2>4, Asked
<1>4. QED
  BY <1>2, <1>3 DEF Fail, End, Send, Answer

\* What a person starts.
LEMMA StartsAsk ==
    ASSUME AsksTyped, InstallsTyped, SpentTyped, DevicesTyped, PairingsTyped, [Next]_vars,
           NEW i \in Installs,
           \/ Unlock(i) \/ CreateRecoveryCode(i) \/ Disconnect(i)
           \/ \E phrase \in Phrases : \/ Change(i, phrase) \/ Adopt(i, phrase)
                                     \/ Pair(i, phrase) \/ Recover(i, phrase)
           \/ \E phrase \in Phrases, code \in 1..spent.codes : RecoverWithCode(i, code, phrase)
           \/ \E p \in DOMAIN pairings : Approve(i, p)
           \/ \E d \in Made : Retire(i, d)
    PROVE  AsksTyped'
<1>0. Blank \in Ask
  BY Blanks
<1>1. ASSUME Unlock(i) PROVE AsksTyped'
  <2> DEFINE x == To([Mine(i) EXCEPT !.phrase = session[i].conn.env.phrase], "login")
  <2>1. session[i] # None /\ ask' = [ask EXCEPT ![i] = x] /\ session' = session
    BY <1>1 DEF Unlock, Send
  <2>2. Mine(i) \in Ask /\ session[i].conn.env.phrase \in Phrases
    BY <2>1, Mines
  <2>3. /\ x \in Ask /\ x.kind = "open" /\ x.step = "login" /\ x.at = "sent"
        /\ x.phrase \in Phrases
    BY <2>1, <2>2, Mines DEF To, Ask, Blank, Anonymous
  <2> HIDE DEF x
  <2>4. Carries(x, Made', DOMAIN pairings')
    BY <2>3 DEF Carries, Opening
  <2>5. QED
    BY <2>1, <2>3, <2>4, Asked
<1>2. ASSUME CreateRecoveryCode(i) PROVE AsksTyped'
  <2> DEFINE x == To([Mine(i) EXCEPT !.kind = "code", !.code = spent.codes + 1], "code")
  <2>1. session[i] # None /\ ask' = [ask EXCEPT ![i] = x] /\ session' = session
    BY <1>2 DEF CreateRecoveryCode, Send, IsOpen
  <2>2. spent.codes + 1 \in 0..MaxTurns
    BY <1>2, Bounds DEF CreateRecoveryCode, CanTurn, SpentTyped
  <2>3. x \in Ask /\ x.kind = "code" /\ x.step = "code"
    BY <2>1, <2>2, Mines DEF To, Ask, Kinds, Authenticated
  <2> HIDE DEF x
  <2>4. Carries(x, Made', DOMAIN pairings')
    BY <2>3 DEF Carries, Acting
  <2>5. QED
    BY <2>1, <2>3, <2>4, Asked
<1>3. ASSUME Disconnect(i) PROVE AsksTyped'
  <2> DEFINE x == To([Mine(i) EXCEPT !.kind = "leave", !.target = Mine(i).device], "revoke")
  <2>1. CASE ~IsOpen(i)
    <3>1. /\ ask' = ask /\ ask[i] = Idle
          /\ \A j \in Installs \ {i} : session'[j] = session[j]
      BY <1>3, <2>1 DEF Disconnect, Released, Free, InstallsTyped
    <3>2. QED
      BY <3>1, Asked DEF AsksTyped
  <2>2. CASE IsOpen(i)
    <3>1. session[i] # None /\ ask' = [ask EXCEPT ![i] = x] /\ session' = session
      BY <1>3, <2>2 DEF Disconnect, Send, IsOpen
    <3>2. Mine(i) \in Ask
      BY <3>1, Mines
    <3>3. x \in Ask /\ x.kind = "leave" /\ x.step = "revoke"
      BY <3>2 DEF To, Ask, Kinds, Authenticated
    <3> HIDE DEF x
    <3>4. Carries(x, Made', DOMAIN pairings')
      BY <3>3 DEF Carries, Acting
    <3>5. QED
      BY <3>1, <3>3, <3>4, Asked
  <2>3. QED
    BY <2>1, <2>2
<1>4. ASSUME NEW phrase \in Phrases, Change(i, phrase) PROVE AsksTyped'
  <2> DEFINE x == To([Mine(i) EXCEPT !.kind = "change", !.phrase = phrase,
                                     !.env = Sealed(phrase)], "passphrase")
  <2>1. session[i] # None /\ ask' = [ask EXCEPT ![i] = x] /\ session' = session
    BY <1>4 DEF Change, Send, IsOpen
  <2>2. Mine(i) \in Ask /\ Sealed(phrase) \in Envelope /\ Sealed(phrase).phrase = phrase
    BY <1>4, <2>1, Mines, Sealing DEF Change
  <2>3. /\ x \in Ask /\ x.kind = "change" /\ x.step = "passphrase"
        /\ x.phrase = phrase /\ x.env = Sealed(phrase)
    BY <2>2 DEF To, Ask, Kinds, Authenticated
  <2> HIDE DEF x
  <2>4. Carries(x, Made', DOMAIN pairings')
    BY <2>2, <2>3 DEF Carries, Changing, Fits
  <2>5. QED
    BY <2>1, <2>3, <2>4, Asked
<1>5. ASSUME NEW phrase \in Phrases, Adopt(i, phrase) PROVE AsksTyped'
  <2> DEFINE x == To([Mine(i) EXCEPT !.kind = "adopt", !.phrase = phrase], "envelope")
  <2>1. session[i] # None /\ ask' = [ask EXCEPT ![i] = x] /\ session' = session
    BY <1>5 DEF Adopt, Send, IsOpen
  <2>2. Mine(i) \in Ask
    BY <2>1, Mines
  <2>3. /\ x \in Ask /\ x.kind = "adopt" /\ x.step = "envelope" /\ x.at = "sent"
        /\ x.phrase = phrase
    BY <2>2 DEF To, Ask, Kinds, Authenticated
  <2> HIDE DEF x
  <2>4. Carries(x, Made', DOMAIN pairings')
    BY <2>3 DEF Carries, Adopting
  <2>5. QED
    BY <2>1, <2>3, <2>4, Asked
<1>6. ASSUME NEW phrase \in Phrases, Pair(i, phrase) PROVE AsksTyped'
  <2> DEFINE x == [Blank EXCEPT !.kind = "pair", !.step = "begin", !.phrase = phrase,
                                !.env = Sealed(phrase)]
  <2>1. ask' = [ask EXCEPT ![i] = x] /\ session' = session
    BY <1>6 DEF Pair, Send
  <2>2. Sealed(phrase) \in Envelope /\ Sealed(phrase).phrase = phrase
    BY <1>6, Sealing DEF Pair
  <2>3. /\ x \in Ask /\ x.kind = "pair" /\ x.step = "begin" /\ x.at = "sent"
        /\ x.phrase = phrase /\ x.env = Sealed(phrase) /\ x.shown = 0 /\ x.device = 0
    BY <1>0, <2>2 DEF Blank, Ask, Kinds, Bootstraps, Anonymous
  <2> HIDE DEF x
  <2>4. Carries(x, Made', DOMAIN pairings')
    BY <2>2, <2>3 DEF Carries, Pairs, ComesWithNothing, Fits
  <2>5. QED
    BY <2>1, <2>3, <2>4, Asked DEF Bootstraps
<1>7. ASSUME NEW phrase \in Phrases, Recover(i, phrase) PROVE AsksTyped'
  <2> DEFINE x == [Blank EXCEPT !.kind = "recover", !.step = "recover", !.phrase = phrase]
  <2>1. ask' = [ask EXCEPT ![i] = x] /\ session' = session
    BY <1>7 DEF Recover, Send
  <2>3. /\ x \in Ask /\ x.kind = "recover" /\ x.step = "recover" /\ x.at = "sent"
        /\ x.phrase = phrase /\ x.device = 0
    BY <1>0 DEF Blank, Ask, Kinds, Bootstraps, Anonymous
  <2> HIDE DEF x
  <2>4. Carries(x, Made', DOMAIN pairings')
    BY <2>3 DEF Carries, Recovering, ComesWithNothing
  <2>5. QED
    BY <2>1, <2>3, <2>4, Asked DEF Bootstraps
<1>8. ASSUME NEW phrase \in Phrases, NEW code \in 1..spent.codes,
             RecoverWithCode(i, code, phrase)
      PROVE  AsksTyped'
  <2> DEFINE x == [Blank EXCEPT !.kind = "redeem", !.step = "recover", !.code = code,
                                !.phrase = phrase, !.env = Sealed(phrase)]
  <2>1. ask' = [ask EXCEPT ![i] = x] /\ session' = session
    BY <1>8 DEF RecoverWithCode, Send
  <2>2. /\ Sealed(phrase) \in Envelope /\ Sealed(phrase).phrase = phrase
        /\ code \in 0..MaxTurns
    <3>1. spent.codes \in 0..MaxTurns
      BY DEF SpentTyped
    <3>2. code \in 0..MaxTurns
      BY <3>1, Bounds
    <3>3. QED
      BY <1>8, <3>2, Sealing DEF RecoverWithCode
  <2>3. /\ x \in Ask /\ x.kind = "redeem" /\ x.step = "recover" /\ x.at = "sent"
        /\ x.phrase = phrase /\ x.env = Sealed(phrase) /\ x.device = 0
    BY <1>0, <2>2 DEF Blank, Ask, Kinds, Bootstraps, Anonymous
  <2> HIDE DEF x
  <2>4. Carries(x, Made', DOMAIN pairings')
    BY <2>2, <2>3 DEF Carries, Redeeming, ComesWithNothing, Fits
  <2>5. QED
    BY <2>1, <2>3, <2>4, Asked DEF Bootstraps
<1>9. ASSUME NEW p \in DOMAIN pairings, Approve(i, p) PROVE AsksTyped'
  <2> DEFINE x == To([Mine(i) EXCEPT !.kind = "approve", !.pairing = p], "lookup")
  <2>1. /\ session[i] # None /\ ask' = [ask EXCEPT ![i] = x] /\ session' = session
        /\ pairings' = pairings
    BY <1>9 DEF Approve, Send, IsOpen, server
  <2>2. Mine(i) \in Ask /\ p \in 0..MaxPairings
    BY <2>1, Mines, Bounds DEF PairingsTyped
  <2>3. /\ x \in Ask /\ x.kind = "approve" /\ x.step = "lookup" /\ x.pairing = p
    BY <2>2 DEF To, Ask, Kinds, Authenticated
  <2> HIDE DEF x
  <2>4. Carries(x, Made', DOMAIN pairings')
    BY <2>1, <2>3 DEF Carries, Approving
  <2>5. QED
    BY <2>1, <2>3, <2>4, Asked
<1>10. ASSUME NEW d \in Made, Retire(i, d) PROVE AsksTyped'
  <2> DEFINE x == To([Mine(i) EXCEPT !.kind = "retire", !.target = d], "revoke")
  <2>1. session[i] # None /\ ask' = [ask EXCEPT ![i] = x] /\ session' = session
    BY <1>10 DEF Retire, Send, IsOpen
  <2>2. Mine(i) \in Ask /\ d \in 0..MaxRows
    BY <2>1, Mines, Bounds DEF DevicesTyped
  <2>3. x \in Ask /\ x.kind = "retire" /\ x.step = "revoke"
    BY <2>2 DEF To, Ask, Kinds, Authenticated
  <2> HIDE DEF x
  <2>4. Carries(x, Made', DOMAIN pairings')
    BY <2>3 DEF Carries, Acting
  <2>5. QED
    BY <2>1, <2>3, <2>4, Asked
<1>11. QED
  BY <1>1, <1>2, <1>3, <1>4, <1>5, <1>6, <1>7, <1>8, <1>9, <1>10

\* An answer that tells of an operation only that its request was carried out.
LEMMA Answered ==
    ASSUME AsksTyped, [Next]_vars, NEW i \in Installs, NEW at \in {"sent", "in", "done"},
           ask[i] # Idle, Answer(i, at), \A j \in Installs : session'[j] = session[j],
           \/ ask[i].step \in Authenticated /\ ~(ask[i].step = "envelope" /\ at = "done")
           \/ ask[i].step = "login" /\ ask[i].at = "in"
           \/ ask[i].step = "claim" /\ ask[i].at = "sent"
    PROVE  AsksTyped'
<1> DEFINE x == [ask[i] EXCEPT !.at = at]
<1>1. /\ ask[i] \in Ask /\ Carries(ask[i], Made, DOMAIN pairings)
      /\ ask[i].kind \in Bootstraps \/ session[i] # None
  BY DEF AsksTyped
<1>2. /\ x \in Ask /\ x.at = at /\ x.kind = ask[i].kind /\ x.step = ask[i].step
      /\ x.phrase = ask[i].phrase /\ x.env = ask[i].env /\ x.device = ask[i].device
      /\ x.pairing = ask[i].pairing /\ x.shown = ask[i].shown
  BY <1>1, AnotherStage
<1>3. ask' = [ask EXCEPT ![i] = x]
  BY DEF Answer, AsksTyped
<1> HIDE DEF x
<1>4. Carries(x, Made, DOMAIN pairings)
  <2>1. CASE Opening(ask[i])
    BY <1>2, <2>1 DEF Carries, Opening, Authenticated
  <2>2. CASE Changing(ask[i])
    BY <1>2, <2>2 DEF Carries, Changing, Fits
  <2>3. CASE Adopting(ask[i])
    BY <1>2, <2>3 DEF Carries, Adopting, Fits, Authenticated
  <2>4. CASE Approving(ask[i], DOMAIN pairings) \/ Acting(ask[i])
    BY <1>2, <2>4 DEF Carries, Approving, Acting
  <2>5. CASE Pairs(ask[i], Made, DOMAIN pairings)
    BY <1>2, <2>5 DEF Carries, Pairs, ComesWithNothing, Fits, Authenticated
  <2>6. CASE Recovering(ask[i], Made)
    BY <1>2, <2>6 DEF Carries, Recovering, ComesWithNothing, Fits, Authenticated
  <2>7. CASE Redeeming(ask[i], Made)
    BY <1>2, <2>7 DEF Carries, Redeeming, ComesWithNothing, Fits, Authenticated
  <2>8. QED
    BY <1>1, <2>1, <2>2, <2>3, <2>4, <2>5, <2>6, <2>7 DEF Carries
<1>5. Carries(x, Made', DOMAIN pairings')
  BY <1>4, Grown, CarriesOn
<1>6. QED
  BY <1>1, <1>2, <1>3, <1>5, Asked

\* An answer that shows the envelope of the account.
LEMMA Showing ==
    ASSUME AsksTyped, AccountTyped, [Next]_vars, NEW i \in Installs,
           NEW at \in {"in", "done"}, NEW env \in Envelope, NEW shown \in Nat,
           ask' = [ask EXCEPT ![i] = [ask[i] EXCEPT !.at = at, !.env = env, !.shown = shown]],
           \A j \in Installs : session'[j] = session[j],
           \/ ask[i].kind = "open" /\ ask[i].step = "login"
           \/ ask[i].kind = "adopt" /\ ask[i].step = "envelope"
    PROVE  AsksTyped'
<1> DEFINE x == [ask[i] EXCEPT !.at = at, !.env = env, !.shown = shown]
<1>0. ask[i] # Idle
  BY Blanks
<1>1. /\ ask[i] \in Ask /\ Carries(ask[i], Made, DOMAIN pairings)
      /\ ask[i].kind \in Bootstraps \/ session[i] # None
  BY <1>0 DEF AsksTyped
<1>2. /\ x \in Ask /\ x.at = at /\ x.kind = ask[i].kind /\ x.step = ask[i].step
      /\ x.phrase = ask[i].phrase /\ x.env = env /\ x.device = ask[i].device
  BY <1>1 DEF Ask
<1> HIDE DEF x
<1>3. Carries(x, Made, DOMAIN pairings)
  BY <1>1, <1>2 DEF Carries, Opening, Changing, Adopting, Approving, Acting, Pairs,
     Recovering, Redeeming, ComesWithNothing, Fits
<1>4. Carries(x, Made', DOMAIN pairings')
  BY <1>3, Grown, CarriesOn
<1>5. QED
  BY <1>1, <1>2, <1>4, Asked DEF x

LEMMA Envelopes == ASSUME AccountTyped PROVE account.env \in Envelope /\ account.filings \in Nat
BY DEF AccountTyped, Account

\* What the routes make of the operations.
LEMMA ServesAsk ==
    ASSUME AsksTyped, AccountTyped, DevicesTyped, PairingsTyped, RowsLeft, PairingsLeft,
           SpentTyped, [Next]_vars, NEW i \in Installs,
           \/ LoginFind(i) \/ LoginIssue(i) \/ RequireAuth(i) \/ RefreshToken(i)
           \/ FileVerifier(i) \/ SetPassphrase(i) \/ SeedEnvelope(i)
           \/ SetRecoveryCode(i) \/ LookupPairing(i) \/ ApprovePairing(i)
           \/ RevokeDevice(i) \/ BeginPairing(i) \/ ClaimFind(i) \/ RecoverFind(i)
    PROVE  AsksTyped'
<1>0. \A j \in Installs : session'[j] = session[j]
  BY DEF LoginFind, LoginIssue, RequireAuth, RefreshToken, FileVerifier, SetPassphrase,
     SeedEnvelope, SetRecoveryCode, LookupPairing, ApprovePairing, RevokeDevice, BeginPairing,
     ClaimFind, RecoverFind, OwnKeys
<1>1. ask[i].step \in Anonymous \cup Authenticated /\ ask[i] # Idle
  BY Blanks DEF LoginFind, LoginIssue, RequireAuth, RefreshToken, FileVerifier, SetPassphrase,
     SeedEnvelope, SetRecoveryCode, LookupPairing, ApprovePairing, RevokeDevice, BeginPairing,
     ClaimFind, RecoverFind, Handled, Anonymous, Authenticated
<1>2. /\ ask[i] \in Ask /\ Carries(ask[i], Made, DOMAIN pairings)
      /\ ask[i].kind \in Bootstraps \/ session[i] # None
  BY <1>1 DEF AsksTyped
<1>3. ASSUME Fail(i) PROVE AsksTyped'
  BY <1>0, <1>1, <1>3, Refused
<1>4. ASSUME LoginFind(i) PROVE AsksTyped'
  <2>1. CASE Fail(i)
    BY <1>3, <2>1
  <2>2. CASE ask[i].kind = "open" /\ ~Fail(i)
    <3>1. ask' = [ask EXCEPT ![i] = [ask[i] EXCEPT !.at = "in", !.env = account.env,
                                                    !.shown = account.filings]]
      BY <1>4, <2>2 DEF LoginFind, Send
    <3>2. QED
      BY <1>0, <1>4, <2>2, <3>1, Envelopes, Showing DEF LoginFind
  <2>3. CASE ask[i].kind # "open" /\ ~Fail(i)
    <3> DEFINE x == [ask[i] EXCEPT !.at = "in"]
    <3>1. ask' = [ask EXCEPT ![i] = x] /\ ask[i].step = "login"
      BY <1>4, <2>3 DEF LoginFind, Send
    <3>2. /\ x \in Ask /\ x.at = "in" /\ x.kind = ask[i].kind /\ x.step = ask[i].step
          /\ x.phrase = ask[i].phrase /\ x.env = ask[i].env /\ x.device = ask[i].device
          /\ x.pairing = ask[i].pairing /\ x.shown = ask[i].shown
      BY <1>2, AnotherStage
    <3> HIDE DEF x
    <3>3. Carries(x, Made, DOMAIN pairings)
      BY <1>2, <2>3, <3>1, <3>2 DEF Carries, Opening, Changing, Adopting, Approving, Acting,
         Pairs, Recovering, Redeeming, ComesWithNothing, Fits
    <3>4. Carries(x, Made', DOMAIN pairings')
      BY <3>3, Grown, CarriesOn
    <3>5. QED
      BY <1>0, <1>2, <3>1, <3>2, <3>4, Asked
  <2>4. QED
    BY <2>1, <2>2, <2>3
<1>5. ASSUME LoginIssue(i) PROVE AsksTyped'
  <2>1. (Fail(i) \/ Answer(i, "done")) /\ ask[i].step = "login" /\ ask[i].at = "in"
    BY <1>5 DEF LoginIssue
  <2>2. QED
    BY <1>0, <1>1, <1>3, <2>1, Answered
<1>6. ASSUME RequireAuth(i) \/ RefreshToken(i) PROVE AsksTyped'
  <2>1. Fail(i) \/ Answer(i, "in")
    BY <1>6 DEF RequireAuth, RefreshToken
  <2>2. ask[i].step \in Authenticated
    BY <1>6 DEF RequireAuth, RefreshToken
  <2>3. QED
    BY <1>0, <1>1, <1>3, <2>1, <2>2, Answered
<1>7. ASSUME FileVerifier(i) \/ LookupPairing(i) PROVE AsksTyped'
  <2>1. Fail(i) \/ Answer(i, "done")
    BY <1>7 DEF FileVerifier, LookupPairing
  <2>2. ask[i].step \in Authenticated /\ ask[i].step # "envelope"
    BY <1>7 DEF FileVerifier, LookupPairing, Handled, Authenticated
  <2>3. QED
    BY <1>0, <1>1, <1>3, <2>1, <2>2, Answered
<1>8. ASSUME SetPassphrase(i) PROVE AsksTyped'
  <2> DEFINE x == [ask[i] EXCEPT !.at = "done", !.shown = account.filings + 1]
  <2>1. CASE Fail(i)
    BY <1>3, <2>1
  <2>2. CASE ~Fail(i)
    <3>1. ask' = [ask EXCEPT ![i] = x] /\ ask[i].step = "passphrase"
      BY <1>8, <2>2 DEF SetPassphrase, Send, Handled
    <3>2. account.filings + 1 \in Nat
      BY Envelopes
    <3>3. /\ x \in Ask /\ x.at = "done" /\ x.kind = ask[i].kind /\ x.step = ask[i].step
          /\ x.phrase = ask[i].phrase /\ x.env = ask[i].env /\ x.device = ask[i].device
      BY <1>2, <3>2 DEF Ask
    <3> HIDE DEF x
    <3>4. Carries(x, Made, DOMAIN pairings)
      BY <1>2, <3>1, <3>3 DEF Carries, Opening, Changing, Adopting, Approving, Acting,
         Pairs, Recovering, Redeeming, ComesWithNothing, Fits
    <3>5. Carries(x, Made', DOMAIN pairings')
      BY <3>4, Grown, CarriesOn
    <3>6. QED
      BY <1>0, <1>2, <3>1, <3>3, <3>5, Asked
  <2>3. QED
    BY <2>1, <2>2
<1>9. ASSUME SeedEnvelope(i) PROVE AsksTyped'
  <2>1. CASE Fail(i)
    BY <1>3, <2>1
  <2>2. CASE ~Fail(i)
    <3>1. /\ ask' = [ask EXCEPT ![i] = [ask[i] EXCEPT !.at = "done", !.env = account.env,
                                                       !.shown = account.filings]]
          /\ ask[i].step = "envelope"
      BY <1>9, <2>2 DEF SeedEnvelope, Send, Handled
    <3>2. ask[i].kind = "adopt"
      BY <1>2, <3>1 DEF Carries, Opening, Changing, Adopting, Approving, Acting,
         Pairs, Recovering, Redeeming
    <3>3. QED
      BY <1>0, <3>1, <3>2, Envelopes, Showing
  <2>3. QED
    BY <2>1, <2>2
<1>10. ASSUME SetRecoveryCode(i) \/ ApprovePairing(i) PROVE AsksTyped'
  <2>1. Fail(i) \/ ask' = [ask EXCEPT ![i] = Idle]
    BY <1>10 DEF SetRecoveryCode, ApprovePairing, End, Send
  <2>2. QED
    BY <1>0, <1>3, <2>1, Asked
<1>11. ASSUME RevokeDevice(i) PROVE AsksTyped'
  <2>1. Answer(i, "done") \/ ask' = [ask EXCEPT ![i] = Idle]
    BY <1>11 DEF RevokeDevice, End, Send
  <2>2. ask[i].step \in Authenticated /\ ask[i].step # "envelope"
    BY <1>11 DEF RevokeDevice, Handled, Authenticated
  <2>3. QED
    BY <1>0, <1>1, <2>1, <2>2, Answered, Asked
<1>12. ASSUME BeginPairing(i) PROVE AsksTyped'
  <2> DEFINE p == Cardinality(DOMAIN pairings) + 1
             x == [ask[i] EXCEPT !.at = "done", !.pairing = p]
  <2>1. /\ ask' = [ask EXCEPT ![i] = x] /\ DOMAIN pairings' = DOMAIN pairings \cup {p}
        /\ ask[i].step = "begin" /\ ask[i].at = "sent"
    BY <1>12 DEF BeginPairing, Send
  <2>2. p \in 0..MaxPairings
    <3>1. i \in Beginning
      BY <2>1 DEF Beginning
    <3>2. Cardinality(Beginning) \in Nat /\ Cardinality(Beginning) # 0
      BY <3>1, FS_CardinalityType, FS_EmptySet DEF PairingsLeft
    <3>3. spent.pairings \in 0..MaxPairings /\ Cardinality(DOMAIN pairings) \in 0..MaxPairings
      BY DEF SpentTyped, PairingsTyped
    <3>4. QED
      BY <3>2, <3>3, Bounds DEF PairingsLeft
  <2>3. /\ x \in Ask /\ x.at = "done" /\ x.kind = ask[i].kind /\ x.step = "begin"
        /\ x.phrase = ask[i].phrase /\ x.env = ask[i].env /\ x.device = ask[i].device
        /\ x.pairing = p /\ x.shown = ask[i].shown
    <3> HIDE DEF p
    <3> QED
      BY <1>2, <2>1, <2>2 DEF Ask
  <2>4. p \in DOMAIN pairings'
    BY <2>1
  <2> HIDE DEF x, p
  <2>5. Carries(x, Made, DOMAIN pairings')
    BY <1>2, <2>1, <2>3, <2>4 DEF Carries, Opening, Changing, Adopting, Approving, Acting,
       Pairs, Recovering, Redeeming, ComesWithNothing, Fits
  <2>6. Carries(x, Made', DOMAIN pairings')
    BY <2>5, Grown, CarriesOn
  <2>7. QED
    BY <1>0, <1>2, <2>1, <2>3, <2>6, Asked
<1>13. ASSUME ClaimFind(i) PROVE AsksTyped'
  <2>1. Fail(i) \/ (\E at \in {"in", "done"} : Answer(i, at))
    BY <1>13 DEF ClaimFind
  <2>2. ask[i].step = "claim" /\ ask[i].at = "sent"
    BY <1>13 DEF ClaimFind
  <2>3. QED
    BY <1>0, <1>1, <1>3, <2>1, <2>2, Answered
<1>14. ASSUME RecoverFind(i) PROVE AsksTyped'
  <2>1. CASE Fail(i)
    BY <1>3, <2>1
  <2>2. CASE ~Fail(i)
    <3> DEFINE env == IF ask[i].kind = "recover" THEN account.env ELSE ask[i].env
               x == [ask[i] EXCEPT !.at = "in", !.shown = account.filings, !.env = env]
    <3>1. ask' = [ask EXCEPT ![i] = x] /\ ask[i].step = "recover" /\ ask[i].at = "sent"
      BY <1>14, <2>2 DEF RecoverFind, Send
    <3>2. Recovering(ask[i], Made) \/ Redeeming(ask[i], Made)
      BY <1>2, <3>1 DEF Carries, Opening, Changing, Adopting, Approving, Acting,
         Pairs, Recovering, Redeeming
    <3>3. env \in Envelope /\ (ask[i].kind = "redeem" => env = ask[i].env)
      BY <3>2, Envelopes DEF Recovering, Redeeming, Fits
    <3> HIDE DEF env
    <3>4. /\ x \in Ask /\ x.at = "in" /\ x.kind = ask[i].kind /\ x.step = "recover"
          /\ x.phrase = ask[i].phrase /\ x.env = env /\ x.device = ask[i].device
      BY <1>2, <3>1, <3>3, Envelopes DEF Ask
    <3> HIDE DEF x
    <3>5. Carries(x, Made, DOMAIN pairings)
      BY <3>1, <3>2, <3>3, <3>4 DEF Carries, Recovering, Redeeming, ComesWithNothing, Fits
    <3>6. Carries(x, Made', DOMAIN pairings')
      BY <3>5, Grown, CarriesOn
    <3>7. QED
      BY <1>0, <1>2, <3>1, <3>4, <3>6, Asked
  <2>3. QED
    BY <2>1, <2>2
<1>15. QED
  BY <1>4, <1>5, <1>6, <1>7, <1>8, <1>9, <1>10, <1>11, <1>12, <1>13, <1>14

\* A device is made for whoever comes with nothing: there is room for it.
LEMMA RoomForOne ==
    ASSUME DevicesTyped, RowsLeft, NEW i \in Unmade
    PROVE  NextRow \in 1..MaxRows
<1>1. IsFiniteSet(Unmade)
  BY FS_Subset DEF RowsLeft, Unmade
<1>2. Cardinality(Unmade) \in Nat /\ Cardinality(Unmade) # 0
  BY <1>1, FS_CardinalityType, FS_EmptySet
<1>3. QED
  BY <1>2, Bounds DEF NextRow, DevicesTyped, RowsLeft

LEMMA WaitsForDevice ==
    ASSUME AsksTyped, NEW i \in Installs, ask[i].step \in {"claim", "recover"}, ask[i].at = "in"
    PROVE  /\ i \in Unmade
           /\ Pairs(ask[i], Made, DOMAIN pairings) \/ Recovering(ask[i], Made)
              \/ Redeeming(ask[i], Made)
<1>1. ask[i] # Idle
  BY Blanks
<1>2. Carries(ask[i], Made, DOMAIN pairings)
  BY <1>1 DEF AsksTyped
<1>3. \/ Pairs(ask[i], Made, DOMAIN pairings) \/ Recovering(ask[i], Made)
      \/ Redeeming(ask[i], Made)
  BY <1>2 DEF Carries, Opening, Changing, Adopting, Approving, Acting
<1>4. ask[i].kind \in Bootstraps /\ ask[i].device = 0
  BY <1>3 DEF Pairs, Recovering, Redeeming, ComesWithNothing, Bootstraps
<1>5. QED
  BY <1>3, <1>4 DEF Unmade, Joining

LEMMA DeviceAsk ==
    ASSUME AsksTyped, DevicesTyped, RowsLeft, [Next]_vars, NEW i \in Installs, MakeDevice(i)
    PROVE  AsksTyped'
<1>0. \A j \in Installs : session'[j] = session[j]
  BY DEF MakeDevice
<1>1. ask[i] # Idle /\ ask[i].step \in {"claim", "recover"} /\ ask[i].at = "in"
  BY Blanks DEF MakeDevice
<1>2. ask[i] \in Ask
  BY <1>1 DEF AsksTyped
<1>3. /\ i \in Unmade
      /\ \/ Pairs(ask[i], Made, DOMAIN pairings) \/ Recovering(ask[i], Made)
         \/ Redeeming(ask[i], Made)
  BY <1>1, WaitsForDevice
<1>4. CASE Fail(i)
  BY <1>0, <1>1, <1>4, Refused
<1>5. CASE ~Fail(i)
  <2> DEFINE x == [ask[i] EXCEPT !.at = "done", !.device = NextRow]
  <2>1. ask' = [ask EXCEPT ![i] = x] /\ Made' = Made \cup {NextRow}
    BY <1>5 DEF MakeDevice, Send, Made
  <2>2. NextRow \in 1..MaxRows
    BY <1>3, RoomForOne
  <2>3. NextRow \in 0..MaxRows /\ NextRow # 0
    BY <2>2, Bounds
  <2>4. /\ x \in Ask /\ x.at = "done" /\ x.kind = ask[i].kind /\ x.step = ask[i].step
        /\ x.phrase = ask[i].phrase /\ x.env = ask[i].env /\ x.device = NextRow
        /\ x.pairing = ask[i].pairing /\ x.shown = ask[i].shown
    BY <1>2, <2>3 DEF Ask
  <2> HIDE DEF x
  <2>5. Carries(x, Made', DOMAIN pairings)
    BY <1>1, <1>3, <2>1, <2>3, <2>4
       DEF Carries, Pairs, Recovering, Redeeming, ComesWithNothing, Fits
  <2>6. Carries(x, Made', DOMAIN pairings')
    BY <2>5, Grown, CarriesOn
  <2>7. x.kind \in Bootstraps
    BY <1>3, <2>4 DEF Pairs, Recovering, Redeeming, Bootstraps
  <2>8. QED
    BY <1>0, <2>1, <2>4, <2>6, <2>7, Asked
<1>6. QED
  BY <1>4, <1>5

\* The session as the file has it, and the session with an envelope held anew.
LEMMA FromFiles ==
    ASSUME InstallsTyped, NEW i \in Installs
    PROVE  /\ data[i] = None => FromFile(i) = None
           /\ data[i] # None => /\ FromFile(i) \in Session /\ FromFile(i) # None
                               /\ FromFile(i).conn = data[i] /\ ~FromFile(i).open
<1>1. CASE data[i] = None
  BY <1>1 DEF FromFile
<1>2. CASE data[i] # None
  <2>1. data[i] \in Connection
    BY <1>2 DEF InstallsTyped
  <2>2. FromFile(i) = [conn |-> data[i], open |-> FALSE, stale |-> FALSE, seen |-> 0]
    BY <1>2 DEF FromFile
  <2>3. FromFile(i) \in Session
    <3>1. 0 \in Nat /\ FALSE \in BOOLEAN
      OBVIOUS
    <3>2. \A conn \in Connection :
            [conn |-> conn, open |-> FALSE, stale |-> FALSE, seen |-> 0] \in Session
      BY <3>1, Zenon DEF Session
    <3>3. QED
      BY <2>1, <2>2, <3>2, Zenon
  <2>4. FromFile(i) # None
    BY <2>3, NoneIsApart
  <2>5. FromFile(i).conn = data[i] /\ ~FromFile(i).open
    BY <2>2
  <2>6. QED
    BY <1>2, <2>3, <2>4, <2>5
<1>3. QED
  BY <1>1, <1>2

LEMMA HeldAnew ==
    ASSUME InstallsTyped, NEW i \in Installs, session[i] # None,
           NEW env \in Envelope, NEW shown \in Nat, Holds(i, env, shown)
    PROVE  /\ session' \in [Installs -> Session \cup {None}]
           /\ session'[i] \in Session /\ session'[i] # None
           /\ session'[i].conn.env = env /\ session'[i].conn.device = session[i].conn.device
           /\ session'[i].seen = shown /\ ~session'[i].stale
           /\ session'[i].open <=> session[i].open
           /\ \A j \in Installs \ {i} : session'[j] = session[j]
<1> DEFINE conn == [session[i].conn EXCEPT !.env = env]
           new == [session[i] EXCEPT !.conn = conn, !.stale = FALSE, !.seen = shown]
<1>1. session[i] \in Session /\ session[i].conn \in Connection
  BY DEF InstallsTyped, Session
<1>2. conn \in Connection /\ conn.env = env /\ conn.device = session[i].conn.device
  BY <1>1 DEF Connection
<1>3. session' = [session EXCEPT ![i] = new]
  BY <1>1 DEF Holds, InstallsTyped, Session
<1> HIDE DEF conn
<1>4. /\ new \in Session /\ new.conn = conn /\ new.seen = shown /\ ~new.stale
      /\ new.open <=> session[i].open
  BY <1>1, <1>2 DEF Session
<1> HIDE DEF new
<1>5. session'[i] = new
  BY <1>3 DEF InstallsTyped
<1>6. QED
  BY <1>2, <1>3, <1>4, <1>5, NoneIsApart DEF InstallsTyped

\* What an install makes of the answers.
LEMMA ContinuesAsk ==
    ASSUME AsksTyped, InstallsTyped, DevicesTyped, [Next]_vars, NEW i \in Installs,
           \/ LoggedIn(i) \/ Proceed(i) \/ CancelPairing(i) \/ Opened(i) \/ SetsNewPhrase(i)
           \/ Take(i) \/ Changed(i) \/ Adopted(i) \/ Keep(i) \/ SealSeed(i) \/ Leave(i)
    PROVE  AsksTyped'
<1>0. ask[i] # Idle
  BY Blanks DEF LoggedIn, Proceed, CancelPairing, Opened, SetsNewPhrase, Take, Changed, Adopted,
     Keep, SealSeed, Leave, Done, AfterRepair
<1>1. /\ ask[i] \in Ask /\ Carries(ask[i], Made, DOMAIN pairings)
      /\ ask[i].kind \in Bootstraps \/ session[i] # None
  BY <1>0 DEF AsksTyped
<1>2. ASSUME End(i), \A j \in Installs \ {i} : session'[j] = session[j] PROVE AsksTyped'
  BY <1>2, Asked DEF End, Send
<1>3. ASSUME LoggedIn(i) PROVE AsksTyped'
  <2>1. /\ ask[i].step = "login" /\ ask[i].at = "done"
        /\ \A j \in Installs : session'[j] = session[j]
    BY <1>3 DEF LoggedIn
  <2>2. PICK x \in {To(ask[i], "verifier"), [ask[i] EXCEPT !.step = "verifier", !.at = "done"]} :
          ask' = [ask EXCEPT ![i] = x]
    BY <1>3 DEF LoggedIn, Send
  <2>3. /\ x \in Ask /\ x.kind = ask[i].kind /\ x.step = "verifier"
        /\ x.phrase = ask[i].phrase /\ x.env = ask[i].env /\ x.device = ask[i].device
        /\ x.pairing = ask[i].pairing /\ x.shown = ask[i].shown
    BY <1>1 DEF To, Ask, Authenticated
  <2>4. Carries(x, Made, DOMAIN pairings)
    BY <1>1, <2>1, <2>3 DEF Carries, Opening, Changing, Adopting, Approving, Acting,
       Pairs, Recovering, Redeeming, ComesWithNothing, Fits
  <2>5. Carries(x, Made', DOMAIN pairings')
    BY <2>4, Grown, CarriesOn
  <2>6. QED
    BY <1>1, <2>1, <2>2, <2>3, <2>5, Asked
<1>4. ASSUME Proceed(i) PROVE AsksTyped'
  <2>0. /\ ask[i].step \in {"begin", "claim", "recover"} /\ ask[i].at = "done"
        /\ \A j \in Installs : session'[j] = session[j]
    BY <1>4 DEF Proceed
  <2>1. \/ Pairs(ask[i], Made, DOMAIN pairings) \/ Recovering(ask[i], Made)
        \/ Redeeming(ask[i], Made)
    BY <1>1, <2>0 DEF Carries, Opening, Changing, Adopting, Approving, Acting
  <2>00. 0 \notin Made
    BY DEF DevicesTyped
  <2>2. CASE ask' = [ask EXCEPT ![i] = Idle]
    BY <2>0, <2>2, Asked
  <2>3. CASE ask' # [ask EXCEPT ![i] = Idle]
    <3>1. \E step \in {"claim", "login"} :
            /\ ask' = [ask EXCEPT ![i] = To(ask[i], step)]
            /\ \/ /\ step = "claim"
                  /\ \/ ask[i].step = "begin"
                     \/ ask[i].step = "claim" /\ ask[i].device \notin Made
               \/ /\ step = "login"
                  /\ \/ ask[i].step = "claim" /\ ask[i].device \in Made
                     \/ ask[i].step = "recover" /\ ask[i].env.phrase = ask[i].phrase
      BY <1>4, <2>3 DEF Proceed, Send
    <3>2. PICK step \in {"claim", "login"} :
            /\ ask' = [ask EXCEPT ![i] = To(ask[i], step)]
            /\ \/ /\ step = "claim"
                  /\ \/ ask[i].step = "begin"
                     \/ ask[i].step = "claim" /\ ask[i].device \notin Made
               \/ /\ step = "login"
                  /\ \/ ask[i].step = "claim" /\ ask[i].device \in Made
                     \/ ask[i].step = "recover" /\ ask[i].env.phrase = ask[i].phrase
      BY <3>1
    <3> DEFINE x == To(ask[i], step)
    <3>3. /\ x \in Ask /\ x.at = "sent" /\ x.kind = ask[i].kind /\ x.step = step
          /\ x.phrase = ask[i].phrase /\ x.env = ask[i].env /\ x.device = ask[i].device
          /\ x.pairing = ask[i].pairing /\ x.shown = ask[i].shown
      BY <1>1, AnotherRequest DEF Anonymous
    <3> HIDE DEF x
    <3>4. Carries(x, Made, DOMAIN pairings)
      <4>1. CASE step = "claim"
        BY <2>0, <2>1, <3>2, <3>3, <4>1
           DEF Carries, Pairs, Recovering, Redeeming, ComesWithNothing, Fits
      <4>2. CASE step = "login"
        BY <2>0, <2>00, <2>1, <3>2, <3>3, <4>2
           DEF Carries, Pairs, Recovering, Redeeming, ComesWithNothing, Fits
      <4>3. QED
        BY <4>1, <4>2
    <3>5. Carries(x, Made', DOMAIN pairings')
      BY <3>4, Grown, CarriesOn
    <3>6. QED
      BY <1>1, <2>0, <3>2, <3>3, <3>5, Asked DEF x
  <2>4. QED
    BY <2>2, <2>3
<1>5. ASSUME CancelPairing(i) PROVE AsksTyped'
  BY <1>0, <1>5, Refused DEF CancelPairing
<1>6. ASSUME Opened(i) \/ Take(i) \/ Keep(i) \/ Leave(i) PROVE AsksTyped'
  <2>1. End(i) /\ \A j \in Installs \ {i} : session'[j] = session[j]
    BY <1>6 DEF Opened, Take, Keep, Leave, Released, InstallsTyped
  <2>2. QED
    BY <1>2, <2>1
<1>7. ASSUME SetsNewPhrase(i) PROVE AsksTyped'
  <2> DEFINE x == To(ask[i], "passphrase")
  <2>1. /\ ask' = [ask EXCEPT ![i] = x] /\ ask[i].kind = "redeem" /\ ask[i].step = "verifier"
        /\ \A j \in Installs : session'[j] = session[j]
    BY <1>7 DEF SetsNewPhrase, Send, AfterRepair
  <2>2. /\ x \in Ask /\ x.at = "sent" /\ x.kind = ask[i].kind /\ x.step = "passphrase"
        /\ x.phrase = ask[i].phrase /\ x.env = ask[i].env /\ x.device = ask[i].device
    BY <1>1, AnotherRequest DEF Authenticated
  <2> HIDE DEF x
  <2>3. Carries(x, Made, DOMAIN pairings)
    BY <1>1, <2>1, <2>2 DEF Carries, Opening, Changing, Adopting, Approving, Acting,
       Pairs, Recovering, Redeeming, ComesWithNothing, Fits
  <2>4. Carries(x, Made', DOMAIN pairings')
    BY <2>3, Grown, CarriesOn
  <2>5. QED
    BY <1>1, <2>1, <2>2, <2>4, Asked
<1>8. ASSUME SealSeed(i) PROVE AsksTyped'
  <2> DEFINE x == To(ask[i], "approve")
  <2>1. /\ ask' = [ask EXCEPT ![i] = x] /\ ask[i].kind = "approve"
        /\ \A j \in Installs : session'[j] = session[j]
    BY <1>8 DEF SealSeed, Send, Done
  <2>2. /\ x \in Ask /\ x.kind = ask[i].kind /\ x.step = "approve"
        /\ x.pairing = ask[i].pairing
    BY <1>1, AnotherRequest DEF Authenticated
  <2> HIDE DEF x
  <2>3. Carries(x, Made, DOMAIN pairings)
    BY <1>1, <2>1, <2>2 DEF Carries, Opening, Changing, Adopting, Approving, Acting,
       Pairs, Recovering, Redeeming
  <2>4. Carries(x, Made', DOMAIN pairings')
    BY <2>3, Grown, CarriesOn
  <2>5. QED
    BY <1>1, <2>1, <2>2, <2>4, Asked
<1>9. ASSUME Changed(i) \/ Adopted(i) PROVE AsksTyped'
  <2> DEFINE x == To(ask[i], "keep")
  <2>1. CASE Fail(i) /\ UNCHANGED session
    BY <1>0, <2>1, Refused
  <2>2. CASE ~(Fail(i) /\ UNCHANGED session)
    <3>1. /\ ask' = [ask EXCEPT ![i] = x] /\ ask[i].at = "done"
          /\ ask[i].kind = "change" \/ (ask[i].kind = "adopt" /\ ask[i].env.phrase = ask[i].phrase)
      BY <1>9, <2>2 DEF Changed, Adopted, Send, Done
    <3>2. Changing(ask[i]) \/ Adopting(ask[i])
      BY <1>1, <3>1 DEF Carries, Opening, Changing, Adopting, Approving, Acting,
         Pairs, Recovering, Redeeming
    <3>3. session[i] # None
      BY <1>1, <3>1 DEF Bootstraps
    <3>4. session'[i] # None /\ \A j \in Installs \ {i} : session'[j] = session[j]
      <4>1. Holds(i, ask[i].env, ask[i].shown)
        BY <1>9, <2>2 DEF Changed, Adopted
      <4>2. ask[i].env \in Envelope /\ ask[i].shown \in Nat
        BY <1>1, <3>1, <3>2 DEF Changing, Adopting, Fits, Ask
      <4>3. QED
        BY <3>3, <4>1, <4>2, HeldAnew
    <3>5. /\ x \in Ask /\ x.kind = ask[i].kind /\ x.step = "keep" /\ x.at = "sent"
          /\ x.phrase = ask[i].phrase /\ x.env = ask[i].env
      BY <1>1, AnotherRequest
    <3> HIDE DEF x
    <3>6. Carries(x, Made', DOMAIN pairings')
      BY <3>1, <3>2, <3>5 DEF Carries, Changing, Adopting, Fits
    <3>7. QED
      BY <3>1, <3>4, <3>5, <3>6, Asked
  <2>3. QED
    BY <2>1, <2>2
<1>10. QED
  BY <1>3, <1>4, <1>5, <1>6, <1>7, <1>8, <1>9

\* What is lost, left or restarted.
LEMMA FaultsAsk ==
    ASSUME AsksTyped, InstallsTyped, [Next]_vars, NEW i \in Installs,
           Lock(i) \/ MoveServer(i) \/ Restart(i) \/ Lose(i) \/ LoseRefresh(i)
    PROVE  AsksTyped'
<1>1. CASE Lose(i) \/ LoseRefresh(i)
  <2>1. Fail(i) /\ ask[i] # Idle /\ \A j \in Installs : session'[j] = session[j]
    BY <1>1, Blanks DEF Lose, LoseRefresh, Authenticated
  <2>2. QED
    BY <2>1, Refused
<1>2. CASE Restart(i)
  <2>1. ask' = [ask EXCEPT ![i] = Idle] /\ \A j \in Installs \ {i} : session'[j] = session[j]
    BY <1>2 DEF Restart, End, Send, InstallsTyped
  <2>2. QED
    BY <2>1, Asked
<1>3. CASE Lock(i)
  <2>1. /\ ask' = [ask EXCEPT ![i] = Idle]
        /\ \A j \in Installs \ {i} : session'[j] = session[j]
    BY <1>3 DEF Lock, Free, InstallsTyped, AsksTyped
  <2>2. QED
    BY <2>1, Asked
<1>4. CASE MoveServer(i)
  <2>1. session[i] # None /\ ask' = ask /\ \A j \in Installs \ {i} : session'[j] = session[j]
    BY <1>4 DEF MoveServer, InstallsTyped
  <2>2. session'[i] # None
    BY <1>4, <2>1, FromFiles DEF MoveServer, InstallsTyped
  <2>3. QED
    <3>1. ask[i] # Idle => Carries(ask[i], Made', DOMAIN pairings')
      BY Grown, CarriesOn DEF AsksTyped
    <3>2. ask' = [ask EXCEPT ![i] = ask[i]] /\ ask[i] \in Ask \cup {Idle}
      BY <2>1 DEF AsksTyped
    <3>3. QED
      BY <2>1, <2>2, <3>1, <3>2, Asked
<1>5. QED
  BY <1>1, <1>2, <1>3, <1>4

LEMMA AskTypes ==
    ASSUME AsksTyped, AccountTyped, InstallsTyped, DevicesTyped, PairingsTyped, SpentTyped,
           RowsLeft, PairingsLeft, [Next]_vars
    PROVE  AsksTyped'
<1>1. CASE UNCHANGED <<ask, session>>
  <2>1. \A i \in Installs : ask[i] # Idle => Carries(ask[i], Made', DOMAIN pairings')
    BY Grown, CarriesOn DEF AsksTyped
  <2>2. QED
    BY <1>1, <2>1 DEF AsksTyped, Made
<1>2. CASE \E i \in Installs :
             \/ Unlock(i) \/ CreateRecoveryCode(i) \/ Disconnect(i)
             \/ \E phrase \in Phrases : \/ Change(i, phrase) \/ Adopt(i, phrase)
                                       \/ Pair(i, phrase) \/ Recover(i, phrase)
             \/ \E phrase \in Phrases, code \in 1..spent.codes : RecoverWithCode(i, code, phrase)
             \/ \E p \in DOMAIN pairings : Approve(i, p)
             \/ \E d \in Made : Retire(i, d)
  BY <1>2, StartsAsk
<1>3. CASE \E i \in Installs : Lock(i) \/ MoveServer(i) \/ Restart(i) \/ Lose(i) \/ LoseRefresh(i)
  BY <1>3, FaultsAsk
<1>4. CASE \E i \in Installs :
             \/ LoginFind(i) \/ LoginIssue(i) \/ RequireAuth(i) \/ RefreshToken(i)
             \/ FileVerifier(i) \/ SetPassphrase(i) \/ SeedEnvelope(i)
             \/ SetRecoveryCode(i) \/ LookupPairing(i) \/ ApprovePairing(i)
             \/ RevokeDevice(i) \/ BeginPairing(i) \/ ClaimFind(i) \/ RecoverFind(i)
  BY <1>4, ServesAsk
<1>5. CASE \E i \in Installs : MakeDevice(i)
  BY <1>5, DeviceAsk
<1>6. CASE \E i \in Installs :
             \/ LoggedIn(i) \/ Proceed(i) \/ CancelPairing(i) \/ Opened(i) \/ SetsNewPhrase(i)
             \/ Take(i) \/ Changed(i) \/ Adopted(i) \/ Keep(i) \/ SealSeed(i) \/ Leave(i)
  BY <1>6, ContinuesAsk
<1>7. ASSUME (\E p \in DOMAIN pairings : Expire(p)) \/ Disable \/ Enable \/ UNCHANGED vars
      PROVE  UNCHANGED <<ask, session>>
  BY <1>7 DEF Expire, Disable, Enable, vars
<1>8. QED
  BY Steps, <1>1, <1>2, <1>3, <1>4, <1>5, <1>6, <1>7

------------------------------------------------------------------------------
(* Room: who waits for a row has one left for it.                           *)

\* One install's operation changes, and it neither comes to be a way in nor to
\* begin a pairing.
Kept(a, b) ==
    /\ b.kind \in Bootstraps => b.kind = a.kind /\ b.device = a.device
    /\ b.step = "begin" /\ b.at = "sent" => a.step = "begin" /\ a.at = "sent"

KeptBut(i) ==
    /\ \A j \in Installs \ {i} : ask'[j] = ask[j]
    /\ Kept(ask[i], ask'[i])

LEMMA KeptInStarts ==
    ASSUME AsksTyped, InstallsTyped, NEW i \in Installs,
           \/ Unlock(i) \/ CreateRecoveryCode(i) \/ Disconnect(i)
           \/ \E phrase \in Phrases : Change(i, phrase) \/ Adopt(i, phrase)
           \/ \E p \in DOMAIN pairings : Approve(i, p)
           \/ \E d \in Made : Retire(i, d)
    PROVE  KeptBut(i)
<1>1. PICK x : ask' = [ask EXCEPT ![i] = x] /\ x.kind \notin Bootstraps /\ x.step # "begin"
  <2>1. CASE Unlock(i)
    <3> DEFINE x == To([Mine(i) EXCEPT !.phrase = session[i].conn.env.phrase], "login")
    <3>1. x.kind = "open" /\ x.step = "login"
      BY DEF Mine, To, Blank
    <3>2. QED
      BY <2>1, <3>1 DEF Unlock, Send, Bootstraps
  <2>2. CASE CreateRecoveryCode(i)
    <3> DEFINE x == To([Mine(i) EXCEPT !.kind = "code", !.code = spent.codes + 1], "code")
    <3>1. x.kind = "code" /\ x.step = "code"
      BY DEF Mine, To, Blank
    <3>2. QED
      BY <2>2, <3>1 DEF CreateRecoveryCode, Send, Bootstraps
  <2>3. CASE Disconnect(i)
    <3> DEFINE x == To([Mine(i) EXCEPT !.kind = "leave", !.target = Mine(i).device], "revoke")
    <3>1. x.kind = "leave" /\ x.step = "revoke"
      BY DEF Mine, To, Blank
    <3>2. ask' = [ask EXCEPT ![i] = x] \/ ask' = [ask EXCEPT ![i] = Idle]
      BY <2>3 DEF Disconnect, Send, Free, AsksTyped
    <3>3. QED
      BY <3>1, <3>2, Blanks DEF Bootstraps
  <2>4. CASE \E phrase \in Phrases : Change(i, phrase)
    <3>1. PICK phrase \in Phrases : Change(i, phrase)
      BY <2>4
    <3> DEFINE x == To([Mine(i) EXCEPT !.kind = "change", !.phrase = phrase,
                                       !.env = Sealed(phrase)], "passphrase")
    <3>2. x.kind = "change" /\ x.step = "passphrase"
      BY DEF Mine, To, Blank
    <3>3. QED
      BY <3>1, <3>2 DEF Change, Send, Bootstraps
  <2>5. CASE \E phrase \in Phrases : Adopt(i, phrase)
    <3>1. PICK phrase \in Phrases : Adopt(i, phrase)
      BY <2>5
    <3> DEFINE x == To([Mine(i) EXCEPT !.kind = "adopt", !.phrase = phrase], "envelope")
    <3>2. x.kind = "adopt" /\ x.step = "envelope"
      BY DEF Mine, To, Blank
    <3>3. QED
      BY <3>1, <3>2 DEF Adopt, Send, Bootstraps
  <2>6. CASE \E p \in DOMAIN pairings : Approve(i, p)
    <3>1. PICK p \in DOMAIN pairings : Approve(i, p)
      BY <2>6
    <3> DEFINE x == To([Mine(i) EXCEPT !.kind = "approve", !.pairing = p], "lookup")
    <3>2. x.kind = "approve" /\ x.step = "lookup"
      BY DEF Mine, To, Blank
    <3>3. QED
      BY <3>1, <3>2 DEF Approve, Send, Bootstraps
  <2>7. CASE \E d \in Made : Retire(i, d)
    <3>1. PICK d \in Made : Retire(i, d)
      BY <2>7
    <3> DEFINE x == To([Mine(i) EXCEPT !.kind = "retire", !.target = d], "revoke")
    <3>2. x.kind = "retire" /\ x.step = "revoke"
      BY DEF Mine, To, Blank
    <3>3. QED
      BY <3>1, <3>2 DEF Retire, Send, Bootstraps
  <2>8. QED
    BY <2>1, <2>2, <2>3, <2>4, <2>5, <2>6, <2>7
<1>2. QED
  BY <1>1 DEF KeptBut, Kept, AsksTyped

LEMMA KeptInSteps ==
    ASSUME AsksTyped, NEW i \in Installs, ask[i] # Idle,
           \/ Fail(i) \/ End(i) \/ \E at \in {"in", "done"} : Answer(i, at)
           \/ LoginFind(i) \/ SetPassphrase(i) \/ SeedEnvelope(i) \/ BeginPairing(i)
           \/ RecoverFind(i) \/ LoggedIn(i) \/ Proceed(i) \/ SetsNewPhrase(i) \/ Changed(i)
           \/ Adopted(i) \/ SealSeed(i)
    PROVE  KeptBut(i)
<1>1. ask[i] \in Ask
  BY DEF AsksTyped
<1>2. ASSUME NEW x, ask' = [ask EXCEPT ![i] = x], Kept(ask[i], x) PROVE KeptBut(i)
  BY <1>2 DEF KeptBut, AsksTyped
<1>3. Kept(ask[i], Idle)
  BY Blanks DEF Kept, Bootstraps
<1>4. \A at \in {"in", "done"} : Kept(ask[i], [ask[i] EXCEPT !.at = at])
  BY <1>1 DEF Kept, Ask
<1>5. \A step \in Authenticated \cup {"claim", "login", "keep"} : Kept(ask[i], To(ask[i], step))
  BY <1>1 DEF Kept, Ask, To, Authenticated
<1>6. ASSUME \/ Fail(i) \/ End(i) \/ \E at \in {"in", "done"} : Answer(i, at) PROVE KeptBut(i)
  BY <1>2, <1>3, <1>4, <1>6 DEF Fail, End, Send, Answer
<1>7. ASSUME LoginFind(i) PROVE KeptBut(i)
  <2>1. Kept(ask[i], [ask[i] EXCEPT !.at = "in", !.env = account.env, !.shown = account.filings])
    BY <1>1 DEF Kept, Ask
  <2>2. QED
    BY <1>2, <1>4, <1>6, <1>7, <2>1 DEF LoginFind, Send
<1>8. ASSUME SetPassphrase(i) PROVE KeptBut(i)
  <2>1. Kept(ask[i], [ask[i] EXCEPT !.at = "done", !.shown = account.filings + 1])
    BY <1>1 DEF Kept, Ask
  <2>2. QED
    BY <1>2, <1>6, <1>8, <2>1 DEF SetPassphrase, Send
<1>9. ASSUME SeedEnvelope(i) PROVE KeptBut(i)
  <2>1. Kept(ask[i], [ask[i] EXCEPT !.at = "done", !.env = account.env, !.shown = account.filings])
    BY <1>1 DEF Kept, Ask
  <2>2. QED
    BY <1>2, <1>6, <1>9, <2>1 DEF SeedEnvelope, Send
<1>10. ASSUME BeginPairing(i) PROVE KeptBut(i)
  <2>1. \A p : Kept(ask[i], [ask[i] EXCEPT !.at = "done", !.pairing = p])
    BY <1>1 DEF Kept, Ask
  <2>2. \E p : ask' = [ask EXCEPT ![i] = [ask[i] EXCEPT !.at = "done", !.pairing = p]]
    BY <1>10 DEF BeginPairing, Send
  <2>3. QED
    BY <1>2, <2>1, <2>2
<1>11. ASSUME RecoverFind(i) PROVE KeptBut(i)
  <2>1. \A env : Kept(ask[i], [ask[i] EXCEPT !.at = "in", !.shown = account.filings, !.env = env])
    BY <1>1 DEF Kept, Ask
  <2>2. \/ Fail(i)
        \/ \E env : ask' = [ask EXCEPT ![i] = [ask[i] EXCEPT !.at = "in", !.shown = account.filings,
                                                              !.env = env]]
    BY <1>11 DEF RecoverFind, Send
  <2>3. QED
    BY <1>2, <1>6, <2>1, <2>2
<1>12. ASSUME LoggedIn(i) PROVE KeptBut(i)
  <2>1. Kept(ask[i], [ask[i] EXCEPT !.step = "verifier", !.at = "done"])
    BY <1>1 DEF Kept, Ask
  <2>2. Kept(ask[i], To(ask[i], "verifier"))
    BY <1>5 DEF Authenticated
  <2>3. QED
    BY <1>2, <1>12, <2>1, <2>2 DEF LoggedIn, Send
<1>13. ASSUME Proceed(i) PROVE KeptBut(i)
  <2>1. \/ ask' = [ask EXCEPT ![i] = Idle]
        \/ \E step \in {"claim", "login"} : ask' = [ask EXCEPT ![i] = To(ask[i], step)]
    BY <1>13 DEF Proceed, Send
  <2>2. QED
    BY <1>2, <1>3, <1>5, <2>1
<1>14. ASSUME SetsNewPhrase(i) \/ SealSeed(i) PROVE KeptBut(i)
  BY <1>2, <1>5, <1>14 DEF SetsNewPhrase, SealSeed, Send, Authenticated
<1>15. ASSUME Changed(i) \/ Adopted(i) PROVE KeptBut(i)
  BY <1>2, <1>5, <1>6, <1>15 DEF Changed, Adopted, Send
<1>16. QED
  BY <1>6, <1>7, <1>8, <1>9, <1>10, <1>11, <1>12, <1>13, <1>14, <1>15

LEMMA Sizes ==
    ASSUME NEW S, IsFiniteSet(S), NEW T, NEW x
    PROVE  /\ Cardinality(S) \in Nat
           /\ T \subseteq S => IsFiniteSet(T) /\ Cardinality(T) \in Nat
                               /\ Cardinality(T) <= Cardinality(S)
           /\ T \subseteq S \cup {x} => IsFiniteSet(T) /\ Cardinality(T) \in Nat
                                        /\ Cardinality(T) <= Cardinality(S) + 1
           /\ x \in S /\ T \subseteq S \ {x} =>
                IsFiniteSet(T) /\ Cardinality(T) \in Nat /\ Cardinality(T) + 1 <= Cardinality(S)
<1>1. Cardinality(S) \in Nat
  BY FS_CardinalityType
<1>2. ASSUME T \subseteq S
      PROVE  IsFiniteSet(T) /\ Cardinality(T) \in Nat /\ Cardinality(T) <= Cardinality(S)
  BY <1>2, FS_Subset, FS_CardinalityType
<1>3. ASSUME T \subseteq S \cup {x}
      PROVE  IsFiniteSet(T) /\ Cardinality(T) \in Nat /\ Cardinality(T) <= Cardinality(S) + 1
  <2>1. IsFiniteSet(S \cup {x}) /\ Cardinality(S \cup {x}) \in Nat
        /\ Cardinality(S \cup {x}) <= Cardinality(S) + 1
    BY <1>1, FS_AddElement, FS_CardinalityType
  <2>2. IsFiniteSet(T) /\ Cardinality(T) \in Nat /\ Cardinality(T) <= Cardinality(S \cup {x})
    BY <1>3, <2>1, FS_Subset, FS_CardinalityType
  <2>3. QED
    BY <1>1, <2>1, <2>2
<1>4. ASSUME x \in S, T \subseteq S \ {x}
      PROVE  IsFiniteSet(T) /\ Cardinality(T) \in Nat /\ Cardinality(T) + 1 <= Cardinality(S)
  <2>1. IsFiniteSet(S \ {x}) /\ Cardinality(S \ {x}) = Cardinality(S) - 1
    BY <1>4, FS_RemoveElement
  <2>2. IsFiniteSet(T) /\ Cardinality(T) \in Nat /\ Cardinality(T) <= Cardinality(S \ {x})
    BY <1>4, <2>1, FS_Subset, FS_CardinalityType
  <2>3. QED
    BY <1>1, <2>1, <2>2
<1>5. QED
  BY <1>1, <1>2, <1>3, <1>4

\* Nobody new waits, and nothing new is made.
LEMMA NobodyNew ==
    ASSUME AsksTyped, DevicesTyped, PairingsTyped, SpentTyped, RowsLeft, PairingsLeft,
           Made' = Made, DOMAIN pairings' = DOMAIN pairings, spent'.pairings = spent.pairings,
           ask' = ask \/ \E i \in Installs : KeptBut(i)
    PROVE  RowsLeft' /\ PairingsLeft'
<1>1. \A j \in Installs : ask'[j] = ask[j] \/ Kept(ask[j], ask'[j])
  BY DEF KeptBut
<1>2. Joining' \subseteq Joining /\ Unmade' \subseteq Unmade /\ Beginning' \subseteq Beginning
  BY <1>1 DEF Kept, Joining, Unmade, Beginning
<1>3. IsFiniteSet(Joining) /\ IsFiniteSet(Beginning)
  BY DEF RowsLeft, PairingsLeft
<1>4. IsFiniteSet(Unmade)
  BY <1>3, FS_Subset DEF Unmade
<1>5. IsFiniteSet(Joining')
  BY <1>2, <1>3, FS_Subset
<1>6. Cardinality(Unmade') \in Nat /\ Cardinality(Unmade) \in Nat
      /\ Cardinality(Unmade') <= Cardinality(Unmade)
  BY <1>2, <1>4, Sizes
<1>7. IsFiniteSet(Beginning') /\ Cardinality(Beginning') \in Nat
      /\ Cardinality(Beginning) \in Nat /\ Cardinality(Beginning') <= Cardinality(Beginning)
  BY <1>2, <1>3, Sizes
<1>8. RowsLeft'
  <2>1. Cardinality(Made') + Cardinality(Unmade') <= MaxRows
    BY <1>6, Bounds DEF RowsLeft, DevicesTyped
  <2>2. QED
    BY <1>5, <2>1 DEF RowsLeft
<1>9. PairingsLeft'
  <2>1. Cardinality(DOMAIN pairings) \in Nat /\ spent.pairings \in Nat
    BY Bounds DEF PairingsTyped, SpentTyped
  <2>2. QED
    BY <1>7, <2>1 DEF PairingsLeft
<1>10. QED
  BY <1>8, <1>9

\* Who comes with nothing takes up room for one more device.
LEMMA Comes ==
    ASSUME AsksTyped, DevicesTyped, RowsLeft, NEW i \in Installs, CanJoin, Made' = Made,
           \A j \in Installs \ {i} : ask'[j] = ask[j]
    PROVE  RowsLeft'
<1>1. Joining' \subseteq Joining \cup {i} /\ Unmade' \subseteq Unmade \cup {i}
  BY DEF Joining, Unmade
<1>2. IsFiniteSet(Joining) /\ Unmade \subseteq Joining
  BY DEF RowsLeft, Unmade
<1>3. IsFiniteSet(Joining')
  BY <1>1, <1>2, Sizes
<1>4. /\ IsFiniteSet(Unmade) /\ Cardinality(Unmade) \in Nat /\ Cardinality(Joining) \in Nat
      /\ Cardinality(Unmade) <= Cardinality(Joining)
  BY <1>2, Sizes
<1>5. Cardinality(Unmade') \in Nat /\ Cardinality(Unmade') <= Cardinality(Unmade) + 1
  BY <1>1, <1>4, Sizes
<1>6. Cardinality(Made') + Cardinality(Unmade') <= MaxRows
  BY <1>4, <1>5, Bounds DEF CanJoin, DevicesTyped
<1>7. QED
  BY <1>3, <1>6 DEF RowsLeft

\* Who does not begin a pairing leaves the room there is for those who do.
LEMMA PairingsStay ==
    ASSUME PairingsTyped, SpentTyped, PairingsLeft, DOMAIN pairings' = DOMAIN pairings,
           spent'.pairings = spent.pairings, Beginning' \subseteq Beginning
    PROVE  PairingsLeft'
<1>1. IsFiniteSet(Beginning') /\ Cardinality(Beginning') \in Nat
      /\ Cardinality(Beginning) \in Nat /\ Cardinality(Beginning') <= Cardinality(Beginning)
  BY Sizes DEF PairingsLeft
<1>2. Cardinality(DOMAIN pairings) \in Nat /\ spent.pairings \in Nat
  BY Bounds DEF PairingsTyped, SpentTyped
<1>3. QED
  BY <1>1, <1>2 DEF PairingsLeft

LEMMA RoomInStarts ==
    ASSUME AsksTyped, DevicesTyped, PairingsTyped, SpentTyped, RowsLeft, PairingsLeft,
           NEW i \in Installs, NEW phrase \in Phrases,
           \/ Pair(i, phrase) \/ Recover(i, phrase)
           \/ \E code \in 1..spent.codes : RecoverWithCode(i, code, phrase)
    PROVE  RowsLeft' /\ PairingsLeft'
<1>1. Made' = Made /\ DOMAIN pairings' = DOMAIN pairings /\ CanJoin
  BY DEF Pair, Recover, RecoverWithCode, server, Made
<1>2. \A j \in Installs \ {i} : ask'[j] = ask[j]
  BY DEF Pair, Recover, RecoverWithCode, Send, AsksTyped
<1>3. RowsLeft'
  BY <1>1, <1>2, Comes
<1>4. CASE Pair(i, phrase)
  <2>1. Beginning' \subseteq Beginning \cup {i}
    BY <1>2 DEF Beginning
  <2>2. IsFiniteSet(Beginning') /\ Cardinality(Beginning') \in Nat
        /\ Cardinality(Beginning) \in Nat /\ Cardinality(Beginning') <= Cardinality(Beginning) + 1
    BY <2>1, Sizes DEF PairingsLeft
  <2>3. spent'.pairings = spent.pairings + 1
    BY <1>4 DEF Pair, SpentTyped
  <2>4. Cardinality(DOMAIN pairings) \in Nat /\ spent.pairings \in Nat
    BY Bounds DEF PairingsTyped, SpentTyped
  <2>5. QED
    BY <1>1, <1>3, <2>2, <2>3, <2>4 DEF PairingsLeft
<1>5. CASE Recover(i, phrase) \/ \E code \in 1..spent.codes : RecoverWithCode(i, code, phrase)
  <2>1. ask'[i].step # "begin"
    BY <1>5 DEF Recover, RecoverWithCode, Send, AsksTyped, Blank
  <2>2. Beginning' \subseteq Beginning
    BY <1>2, <2>1 DEF Beginning
  <2>3. spent'.pairings = spent.pairings
    BY <1>5 DEF Recover, RecoverWithCode, OneMore, SpentTyped
  <2>4. QED
    BY <1>1, <1>3, <2>2, <2>3, PairingsStay
<1>6. QED
  BY <1>4, <1>5

\* A device made is one that was waited for.
LEMMA RoomInMaking ==
    ASSUME AsksTyped, DevicesTyped, PairingsTyped, SpentTyped, RowsLeft, PairingsLeft,
           NEW i \in Installs, MakeDevice(i)
    PROVE  RowsLeft' /\ PairingsLeft'
<1>1. ask[i] # Idle /\ ask[i].step \in {"claim", "recover"} /\ ask[i].at = "in"
  BY Blanks DEF MakeDevice
<1>2. ask[i] \in Ask /\ i \in Unmade
  BY <1>1, WaitsForDevice DEF AsksTyped
<1>3. DOMAIN pairings' = DOMAIN pairings /\ spent' = spent
  BY DEF MakeDevice
<1>4. CASE Fail(i) /\ UNCHANGED devices
  <2>1. KeptBut(i)
    BY <1>1, <1>4, KeptInSteps
  <2>2. QED
    BY <1>3, <1>4, <2>1, NobodyNew DEF Made
<1>5. CASE ~(Fail(i) /\ UNCHANGED devices)
  <2>1. /\ ask' = [ask EXCEPT ![i] = [ask[i] EXCEPT !.at = "done", !.device = NextRow]]
        /\ Made' = Made \cup {NextRow}
    BY <1>5 DEF MakeDevice, Send, Made
  <2>2. NextRow \in 1..MaxRows
    BY <1>2, RoomForOne
  <2>3. /\ ask'[i].kind = ask[i].kind /\ ask'[i].device = NextRow /\ ask'[i].at = "done"
        /\ \A j \in Installs \ {i} : ask'[j] = ask[j]
    BY <1>2, <2>1 DEF AsksTyped, Ask
  <2>4. /\ Joining' \subseteq Joining /\ Unmade' \subseteq Unmade \ {i}
        /\ Beginning' \subseteq Beginning
    BY <2>2, <2>3 DEF Joining, Unmade, Beginning
  <2>5. IsFiniteSet(Made) /\ Cardinality(Made) \in Nat
    BY FS_Interval, Bounds DEF DevicesTyped
  <2>6. Cardinality(Made') \in Nat /\ Cardinality(Made') <= Cardinality(Made) + 1
    BY <2>1, <2>5, Sizes
  <2>7. IsFiniteSet(Joining') /\ IsFiniteSet(Unmade)
    BY <2>4, Sizes DEF RowsLeft, Unmade
  <2>8. /\ Cardinality(Unmade) \in Nat /\ Cardinality(Unmade') \in Nat
        /\ Cardinality(Unmade') + 1 <= Cardinality(Unmade)
    BY <1>2, <2>4, <2>7, Sizes
  <2>9. Cardinality(Made') + Cardinality(Unmade') <= MaxRows
    BY <2>5, <2>6, <2>8, Bounds DEF RowsLeft
  <2>10. RowsLeft'
    BY <2>7, <2>9 DEF RowsLeft
  <2>11. QED
    BY <1>3, <2>4, <2>10, PairingsStay
<1>6. QED
  BY <1>4, <1>5

\* A pairing begun is one that was to be.
LEMMA RoomInBeginning ==
    ASSUME AsksTyped, DevicesTyped, PairingsTyped, SpentTyped, RowsLeft, PairingsLeft,
           NEW i \in Installs, BeginPairing(i)
    PROVE  RowsLeft' /\ PairingsLeft'
<1>1. ask[i] # Idle /\ i \in Beginning
  BY Blanks DEF BeginPairing, Beginning
<1>2. ask[i] \in Ask /\ KeptBut(i)
  BY <1>1, KeptInSteps DEF AsksTyped
<1>3. Made' = Made /\ spent' = spent
  BY DEF BeginPairing, Made
<1>4. ask'[i].at = "done"
  BY <1>2 DEF BeginPairing, Send, AsksTyped, Ask
<1>5. RowsLeft'
  <2>1. Joining' \subseteq Joining /\ Unmade' \subseteq Unmade
    BY <1>2 DEF KeptBut, Kept, Joining, Unmade
  <2>2. IsFiniteSet(Joining') /\ IsFiniteSet(Unmade)
    BY <2>1, Sizes DEF RowsLeft, Unmade
  <2>3. Cardinality(Unmade') \in Nat /\ Cardinality(Unmade) \in Nat
        /\ Cardinality(Unmade') <= Cardinality(Unmade)
    BY <2>1, <2>2, Sizes
  <2>4. Cardinality(Made') + Cardinality(Unmade') <= MaxRows
    BY <1>3, <2>3, Bounds DEF RowsLeft, DevicesTyped
  <2>5. QED
    BY <2>2, <2>4 DEF RowsLeft
<1>6. Beginning' \subseteq Beginning \ {i}
  BY <1>2, <1>4 DEF KeptBut, Beginning
<1>7. /\ IsFiniteSet(Beginning') /\ Cardinality(Beginning) \in Nat
      /\ Cardinality(Beginning') \in Nat /\ Cardinality(Beginning') + 1 <= Cardinality(Beginning)
  BY <1>1, <1>6, Sizes DEF PairingsLeft
<1>8. IsFiniteSet(DOMAIN pairings) /\ Cardinality(DOMAIN pairings) \in Nat
  BY FS_Interval, Bounds DEF PairingsTyped
<1>9. DOMAIN pairings' = DOMAIN pairings \cup {Cardinality(DOMAIN pairings) + 1}
  BY DEF BeginPairing
<1>10. Cardinality(DOMAIN pairings') \in Nat
       /\ Cardinality(DOMAIN pairings') <= Cardinality(DOMAIN pairings) + 1
  BY <1>8, <1>9, Sizes
<1>11. spent.pairings \in Nat
  BY Bounds DEF SpentTyped
<1>12. QED
  BY <1>3, <1>5, <1>7, <1>8, <1>10, <1>11 DEF PairingsLeft

\* Nobody is let in for whom there is no row left, nor begins a pairing for
\* which there is none.
LEMMA RoomStays ==
    ASSUME AsksTyped, InstallsTyped, DevicesTyped, PairingsTyped, SpentTyped,
           RowsLeft, PairingsLeft, [Next]_vars
    PROVE  RowsLeft' /\ PairingsLeft'
<1> DEFINE Goal == RowsLeft' /\ PairingsLeft'
<1>1. ASSUME NEW i \in Installs,
             \/ Unlock(i) \/ CreateRecoveryCode(i) \/ Disconnect(i)
             \/ \E phrase \in Phrases : Change(i, phrase) \/ Adopt(i, phrase)
             \/ \E p \in DOMAIN pairings : Approve(i, p)
             \/ \E d \in Made : Retire(i, d)
      PROVE  Goal
  <2>1. KeptBut(i)
    BY <1>1, KeptInStarts
  <2>2. Made' = Made /\ DOMAIN pairings' = DOMAIN pairings /\ spent'.pairings = spent.pairings
    BY <1>1 DEF Unlock, CreateRecoveryCode, Disconnect, Change, Adopt, Approve, Retire, OneMore,
       server, Made, SpentTyped
  <2>3. QED
    BY <2>1, <2>2, NobodyNew
<1>2. ASSUME NEW i \in Installs, NEW phrase \in Phrases,
             \/ Pair(i, phrase) \/ Recover(i, phrase)
             \/ \E code \in 1..spent.codes : RecoverWithCode(i, code, phrase)
      PROVE  Goal
  BY <1>2, RoomInStarts
<1>3. ASSUME NEW i \in Installs, MakeDevice(i) PROVE Goal
  BY <1>3, RoomInMaking
<1>4. ASSUME NEW i \in Installs, BeginPairing(i) PROVE Goal
  BY <1>4, RoomInBeginning
<1>5. ASSUME NEW i \in Installs,
             \/ Lose(i) \/ LoseRefresh(i) \/ Restart(i)
             \/ LoginFind(i) \/ LoginIssue(i) \/ RequireAuth(i) \/ FileVerifier(i)
             \/ SetPassphrase(i) \/ SeedEnvelope(i) \/ SetRecoveryCode(i) \/ LookupPairing(i)
             \/ ApprovePairing(i) \/ RevokeDevice(i) \/ ClaimFind(i) \/ RecoverFind(i)
             \/ LoggedIn(i) \/ RefreshToken(i) \/ Proceed(i) \/ CancelPairing(i)
             \/ Opened(i) \/ SetsNewPhrase(i) \/ Take(i) \/ Changed(i) \/ Adopted(i)
             \/ Keep(i) \/ SealSeed(i) \/ Leave(i)
      PROVE  Goal
  <2>1. Made' = Made /\ DOMAIN pairings' = DOMAIN pairings /\ spent'.pairings = spent.pairings
    <3>1. Made' = Made
      BY <1>5 DEF Lose, LoseRefresh, Restart, LoginFind, LoginIssue, Issued, RequireAuth,
         FileVerifier, SetPassphrase, SeedEnvelope, SetRecoveryCode, LookupPairing,
         ApprovePairing, RevokeDevice, Revoked, ClaimFind, RecoverFind, LoggedIn, RefreshToken,
         Proceed, CancelPairing, Opened, SetsNewPhrase, Take, Changed, Adopted, Keep, SealSeed,
         Leave, server, OwnKeys, Made
    <3>2. DOMAIN pairings' = DOMAIN pairings
      BY <1>5 DEF Lose, LoseRefresh, Restart, LoginFind, LoginIssue, RequireAuth,
         FileVerifier, SetPassphrase, SeedEnvelope, SetRecoveryCode, LookupPairing,
         ApprovePairing, Bound, RevokeDevice, ClaimFind, RecoverFind, LoggedIn, RefreshToken,
         Proceed, CancelPairing, Opened, SetsNewPhrase, Take, Changed, Adopted, Keep, SealSeed,
         Leave, server, OwnKeys
    <3>3. spent' = spent \/ spent' = [spent EXCEPT !.turns = @ + 1]
      BY <1>5 DEF Lose, LoseRefresh, Restart, LoginFind, LoginIssue, RequireAuth,
         FileVerifier, SetPassphrase, SeedEnvelope, SetRecoveryCode, LookupPairing,
         ApprovePairing, RevokeDevice, ClaimFind, RecoverFind, LoggedIn, RefreshToken,
         Proceed, CancelPairing, Opened, SetsNewPhrase, Take, Changed, Adopted, Keep, SealSeed,
         Leave, OneMore, OwnKeys
    <3>4. QED
      BY <3>1, <3>2, <3>3 DEF SpentTyped
  <2>2. KeptBut(i)
    <3>1. CASE ask[i] = Idle
      <4>1. Restart(i)
        BY <1>5, <3>1, Blanks DEF Lose, LoseRefresh, LoginFind, LoginIssue, RequireAuth,
           FileVerifier, SetPassphrase, SeedEnvelope, SetRecoveryCode, LookupPairing,
           ApprovePairing, RevokeDevice, ClaimFind, RecoverFind, LoggedIn, RefreshToken,
           Proceed, CancelPairing, Opened, SetsNewPhrase, Take, Changed, Adopted, Keep,
           SealSeed, Leave, Handled, Done, AfterRepair, Authenticated
      <4>2. QED
        BY <3>1, <4>1, Blanks DEF Restart, End, Send, AsksTyped, KeptBut, Kept, Bootstraps
    <3>2. CASE ask[i] # Idle
      <4>1. \/ Fail(i) \/ End(i) \/ \E at \in {"in", "done"} : Answer(i, at)
            \/ LoginFind(i) \/ SetPassphrase(i) \/ SeedEnvelope(i)
            \/ RecoverFind(i) \/ LoggedIn(i) \/ Proceed(i) \/ SetsNewPhrase(i) \/ Changed(i)
            \/ Adopted(i) \/ SealSeed(i)
        BY <1>5 DEF Lose, LoseRefresh, Restart, LoginIssue, RequireAuth, FileVerifier,
           SetRecoveryCode, LookupPairing, ApprovePairing, RevokeDevice, ClaimFind,
           RefreshToken, CancelPairing, Opened, Take, Keep, Leave
      <4>2. QED
        BY <3>2, <4>1, KeptInSteps
    <3>3. QED
      BY <3>1, <3>2
  <2>3. QED
    BY <2>1, <2>2, NobodyNew
<1>6. ASSUME \/ \E i \in Installs : Lock(i) \/ MoveServer(i)
             \/ (\E p \in DOMAIN pairings : Expire(p)) \/ Disable \/ Enable \/ UNCHANGED vars
      PROVE  Goal
  <2>1. /\ ask' = ask /\ Made' = Made /\ DOMAIN pairings' = DOMAIN pairings
        /\ spent'.pairings = spent.pairings
    BY <1>6 DEF Lock, MoveServer, Expire, Disable, Enable, OneMore, vars, server, Made, SpentTyped
  <2>2. QED
    BY <2>1, NobodyNew
<1>7. QED
  BY Steps, <1>1, <1>2, <1>3, <1>4, <1>5, <1>6

------------------------------------------------------------------------------
(* The types, kept.                                                         *)

\* What an account may come to have.
LEMMA AccountFields ==
    ASSUME AccountTyped
    PROVE  /\ account.filings \in Nat
           /\ \A phrase \in Phrases :
                /\ [account EXCEPT !.verifier = phrase] \in Account
                /\ [account EXCEPT !.verifier = phrase].filings = account.filings
           /\ \A code \in 0..MaxTurns : /\ [account EXCEPT !.code = code] \in Account
                                        /\ [account EXCEPT !.code = code].filings = account.filings
           /\ \A state \in {"active", "disabled"} :
                /\ [account EXCEPT !.state = state] \in Account
                /\ [account EXCEPT !.state = state].filings = account.filings
BY DEF AccountTyped, Account

LEMMA MovedFields ==
    ASSUME AccountTyped, NEW a, a.phrase \in Phrases, a.env \in Envelope
    PROVE  /\ Moved(a) \in Account /\ Moved(a).filings = account.filings + 1
           /\ Moved(a).env = a.env /\ Moved(a).verifier = a.phrase
<1>1. account.filings + 1 \in Nat
  BY DEF AccountTyped, Account
<1>2. QED
  BY <1>1 DEF AccountTyped, Account, Moved

LEMMA AccountTypes ==
    ASSUME AccountTyped, AsksTyped, [Next]_vars
    PROVE  AccountTyped'
<1>1. ASSUME NEW i \in Installs, FileVerifier(i) PROVE AccountTyped'
  <2>1. ask[i] # Idle /\ ask[i].step = "verifier"
    BY <1>1, Blanks DEF FileVerifier, Handled
  <2>2. ask[i].phrase \in Phrases
    BY <2>1 DEF AsksTyped, Carries, Opening, Changing, Adopting, Approving, Acting, Pairs,
       Recovering, Redeeming
  <2>3. account' = account \/ account' = [account EXCEPT !.verifier = ask[i].phrase]
    BY <1>1 DEF FileVerifier
  <2>4. QED
    BY <2>2, <2>3, AccountFields DEF AccountTyped
<1>2. ASSUME NEW i \in Installs, SetPassphrase(i) PROVE AccountTyped'
  <2>1. ask[i] # Idle /\ ask[i].step = "passphrase"
    BY <1>2, Blanks DEF SetPassphrase, Handled
  <2>2. ask[i].phrase \in Phrases /\ ask[i].env \in Envelope
    BY <2>1 DEF AsksTyped, Carries, Opening, Changing, Adopting, Approving, Acting, Pairs,
       Recovering, Redeeming, Fits
  <2>3. account' = account \/ account' = Moved(ask[i])
    BY <1>2 DEF SetPassphrase
  <2>4. QED
    BY <2>2, <2>3, AccountFields, MovedFields DEF AccountTyped
<1>3. ASSUME NEW i \in Installs, SetRecoveryCode(i) PROVE AccountTyped'
  <2>1. ask[i] # Idle
    BY <1>3, Blanks DEF SetRecoveryCode, Handled
  <2>2. ask[i].code \in 0..MaxTurns
    BY <2>1 DEF AsksTyped, Ask
  <2>3. account' = account \/ account' = CodeSet(ask[i].code)
    BY <1>3 DEF SetRecoveryCode
  <2>4. QED
    BY <2>2, <2>3, AccountFields DEF AccountTyped, CodeSet
<1>4. ASSUME Disable \/ Enable PROVE AccountTyped'
  BY <1>4, AccountFields DEF Disable, Enable, AccountTyped
<1>5. \/ \E i \in Installs : FileVerifier(i) \/ SetPassphrase(i) \/ SetRecoveryCode(i)
      \/ Disable \/ Enable \/ UNCHANGED account
  BY Steps, ZenonT(60) DEF Unlock, CreateRecoveryCode, Disconnect, Lock, MoveServer, Restart, Lose,
     LoseRefresh, Change, Adopt, Pair, Recover, RecoverWithCode, Approve, Retire, LoginFind,
     LoginIssue, RequireAuth, SeedEnvelope, LookupPairing, ApprovePairing, RevokeDevice,
     BeginPairing, ClaimFind, RecoverFind, MakeDevice, LoggedIn, RefreshToken, Proceed,
     CancelPairing, Opened, SetsNewPhrase, Take, Changed, Adopted, Keep, SealSeed, Leave,
     Expire, vars, server
<1>6. QED
  BY <1>1, <1>2, <1>3, <1>4, <1>5 DEF AccountTyped

LEMMA RowFields ==
    ASSUME NEW row \in Row
    PROVE  [row EXCEPT !.refresh = TRUE] \in Row /\ [row EXCEPT !.revoked = TRUE] \in Row
BY DEF Row

LEMMA NewRows ==
    [revoked |-> FALSE, refresh |-> FALSE] \in Row /\ [revoked |-> TRUE, refresh |-> FALSE] \in Row
    /\ [revoked |-> FALSE, refresh |-> TRUE] \in Row
BY Zenon DEF Row

LEMMA DeviceTypes ==
    ASSUME DevicesTyped, AsksTyped, RowsLeft, [Next]_vars
    PROVE  DevicesTyped'
<1>1. ASSUME Made' = Made, \A d \in Made : devices'[d] \in Row PROVE DevicesTyped'
  BY <1>1 DEF DevicesTyped
<1>2. ASSUME NEW i \in Installs, LoginIssue(i) PROVE DevicesTyped'
  <2>1. devices' = devices \/ devices' = [devices EXCEPT ![ask[i].device].refresh = TRUE]
    BY <1>2 DEF LoginIssue, Issued
  <2>2. \A d \in Made : \/ devices'[d] = devices[d]
                        \/ devices'[d] = [devices[d] EXCEPT !.refresh = TRUE]
    BY <2>1 DEF Made
  <2>3. \A d \in Made : devices'[d] \in Row
    BY <2>2, RowFields DEF DevicesTyped
  <2>4. QED
    BY <1>1, <2>1, <2>3 DEF Made
<1>3. ASSUME NEW i \in Installs, RevokeDevice(i) PROVE DevicesTyped'
  BY <1>1, <1>3, NewRows DEF RevokeDevice, Revoked, Made, DevicesTyped
<1>4. ASSUME NEW i \in Installs, MakeDevice(i) PROVE DevicesTyped'
  <2>1. i \in Unmade
    BY <1>4, WaitsForDevice DEF MakeDevice
  <2>2. NextRow \in 1..MaxRows /\ NextRow = Cardinality(Made) + 1
    BY <2>1, RoomForOne DEF NextRow
  <2>3. CASE devices' = devices
    BY <2>3 DEF DevicesTyped, Made
  <2>4. CASE devices' = [d \in Made \cup {NextRow} |->
                           IF d = NextRow THEN [revoked |-> FALSE, refresh |-> FALSE]
                           ELSE devices[d]]
    <3>1. Made' = Made \cup {NextRow} /\ \A d \in Made' : devices'[d] \in Row
      BY <2>4, NewRows DEF Made, DevicesTyped
    <3>2. Cardinality(Made) \in Nat /\ Made = 1..Cardinality(Made)
      BY Bounds DEF DevicesTyped
    <3>3. Made' = 1..NextRow
      BY <2>2, <3>1, <3>2
    <3>4. Cardinality(1..NextRow) = NextRow
      BY <2>2, <3>2, FS_Interval
    <3>5. NextRow \in 0..MaxRows
      BY <2>2, Bounds
    <3>6. QED
      BY <3>1, <3>3, <3>4, <3>5 DEF DevicesTyped
  <2>5. QED
    BY <1>4, <2>3, <2>4 DEF MakeDevice
<1>5. ASSUME Disable PROVE DevicesTyped'
  BY <1>1, <1>5, RowFields DEF Disable, Made, DevicesTyped
<1>6. \/ \E i \in Installs : LoginIssue(i) \/ RevokeDevice(i) \/ MakeDevice(i)
      \/ Disable \/ UNCHANGED devices
  BY Steps, ZenonT(60) DEF Unlock, CreateRecoveryCode, Disconnect, Lock, MoveServer, Restart, Lose,
     LoseRefresh, Change, Adopt, Pair, Recover, RecoverWithCode, Approve, Retire, LoginFind,
     RequireAuth, FileVerifier, SetPassphrase, SeedEnvelope, SetRecoveryCode, LookupPairing,
     ApprovePairing, BeginPairing, ClaimFind, RecoverFind, LoggedIn, RefreshToken, Proceed,
     CancelPairing, Opened, SetsNewPhrase, Take, Changed, Adopted, Keep, SealSeed, Leave,
     Expire, Enable, vars, server, OwnKeys
<1>7. QED
  BY <1>1, <1>2, <1>3, <1>4, <1>5, <1>6 DEF DevicesTyped, Made

LEMMA PairingFields ==
    ASSUME NEW row \in Pairing, NEW state \in {"waiting", "approved", "claimed", "expired"}
    PROVE  [row EXCEPT !.state = state] \in Pairing
BY DEF Pairing

LEMMA PairingTypes ==
    ASSUME PairingsTyped, AsksTyped, SpentTyped, PairingsLeft, [Next]_vars
    PROVE  PairingsTyped'
<1>1. ASSUME DOMAIN pairings' = DOMAIN pairings, \A p \in DOMAIN pairings : pairings'[p] \in Pairing
      PROVE  PairingsTyped'
  BY <1>1 DEF PairingsTyped
<1>2. ASSUME NEW p, NEW state \in {"waiting", "approved", "claimed", "expired"},
             pairings' = [pairings EXCEPT ![p].state = state]
      PROVE  PairingsTyped'
  BY <1>1, <1>2, PairingFields DEF PairingsTyped
<1>3. ASSUME NEW i \in Installs, ApprovePairing(i) PROVE PairingsTyped'
  BY <1>1, <1>2, <1>3 DEF ApprovePairing, Bound, PairingsTyped
<1>4. ASSUME NEW i \in Installs, MakeDevice(i) PROVE PairingsTyped'
  BY <1>1, <1>2, <1>4 DEF MakeDevice, PairingsTyped
<1>5. ASSUME NEW p \in DOMAIN pairings, Expire(p) PROVE PairingsTyped'
  BY <1>2, <1>5 DEF Expire
<1>6. ASSUME NEW i \in Installs, BeginPairing(i) PROVE PairingsTyped'
  <2> DEFINE p == Cardinality(DOMAIN pairings) + 1
  <2>1. Cardinality(DOMAIN pairings) \in Nat /\ DOMAIN pairings = 1..Cardinality(DOMAIN pairings)
    BY Bounds DEF PairingsTyped
  <2>2. p \in 0..MaxPairings
    <3>1. i \in Beginning
      BY <1>6 DEF BeginPairing, Beginning
    <3>2. Cardinality(Beginning) \in Nat /\ Cardinality(Beginning) # 0
      BY <3>1, FS_CardinalityType, FS_EmptySet DEF PairingsLeft
    <3>3. spent.pairings \in 0..MaxPairings
      BY DEF SpentTyped
    <3>4. QED
      BY <2>1, <3>2, <3>3, Bounds DEF PairingsLeft
  <2>3. [by |-> i, state |-> "waiting"] \in Pairing
    BY DEF Pairing
  <2>4. pairings' = [q \in DOMAIN pairings \cup {p} |->
                       IF q = p THEN [by |-> i, state |-> "waiting"] ELSE pairings[q]]
    BY <1>6 DEF BeginPairing
  <2>5. /\ DOMAIN pairings' = DOMAIN pairings \cup {p}
        /\ \A q \in DOMAIN pairings' : pairings'[q] \in Pairing
    BY <2>3, <2>4 DEF PairingsTyped
  <2>6. DOMAIN pairings' = 1..p
    BY <2>1, <2>5
  <2>7. Cardinality(1..p) = p
    BY <2>1, FS_Interval
  <2> HIDE DEF p
  <2>8. QED
    BY <2>2, <2>5, <2>6, <2>7 DEF PairingsTyped
<1>7. \/ \E i \in Installs : ApprovePairing(i) \/ MakeDevice(i) \/ BeginPairing(i)
      \/ (\E p \in DOMAIN pairings : Expire(p)) \/ UNCHANGED pairings
  BY Steps, ZenonT(60) DEF Unlock, CreateRecoveryCode, Disconnect, Lock, MoveServer, Restart, Lose,
     LoseRefresh, Change, Adopt, Pair, Recover, RecoverWithCode, Approve, Retire, LoginFind,
     LoginIssue, RequireAuth, FileVerifier, SetPassphrase, SeedEnvelope, SetRecoveryCode,
     LookupPairing, RevokeDevice, ClaimFind, RecoverFind, LoggedIn, RefreshToken, Proceed,
     CancelPairing, Opened, SetsNewPhrase, Take, Changed, Adopted, Keep, SealSeed, Leave,
     Disable, Enable, vars, server, OwnKeys
<1>8. QED
  BY <1>3, <1>4, <1>5, <1>6, <1>7 DEF PairingsTyped

LEMMA SpentFields ==
    ASSUME SpentTyped
    PROVE  /\ CanSeal => [spent EXCEPT !.nonces = @ + 1] \in
                [nonces : 0..MaxNonces, codes : 0..MaxTurns, pairings : 0..MaxPairings,
                 turns : 0..MaxTurns]
           /\ CanTurn => [spent EXCEPT !.turns = @ + 1] \in
                [nonces : 0..MaxNonces, codes : 0..MaxTurns, pairings : 0..MaxPairings,
                 turns : 0..MaxTurns]
           /\ CanTurn => [spent EXCEPT !.codes = @ + 1, !.turns = @ + 1] \in
                [nonces : 0..MaxNonces, codes : 0..MaxTurns, pairings : 0..MaxPairings,
                 turns : 0..MaxTurns]
           /\ CanSeal /\ spent.pairings < MaxPairings =>
                [spent EXCEPT !.pairings = @ + 1, !.nonces = @ + 1] \in
                [nonces : 0..MaxNonces, codes : 0..MaxTurns, pairings : 0..MaxPairings,
                 turns : 0..MaxTurns]
<1>1. /\ spent.nonces \in 0..MaxNonces /\ spent.turns \in 0..MaxTurns
      /\ spent.codes \in 0..MaxTurns /\ spent.pairings \in 0..MaxPairings
      /\ spent.codes <= spent.turns
  BY DEF SpentTyped
<1>2. /\ CanSeal => spent.nonces + 1 \in 0..MaxNonces
      /\ CanTurn => spent.turns + 1 \in 0..MaxTurns /\ spent.codes + 1 \in 0..MaxTurns
      /\ spent.pairings < MaxPairings => spent.pairings + 1 \in 0..MaxPairings
  BY <1>1, Bounds DEF CanSeal, CanTurn
<1>3. QED
  BY <1>1, <1>2 DEF SpentTyped

LEMMA SpentTypes ==
    ASSUME SpentTyped, [Next]_vars
    PROVE  SpentTyped'
<1>0. spent.codes \in Nat /\ spent.turns \in Nat
  BY Bounds DEF SpentTyped
<1>1. ASSUME CanSeal, OneMore("nonces") PROVE SpentTyped'
  BY <1>0, <1>1, SpentFields DEF OneMore, SpentTyped
<1>2. ASSUME CanTurn, OneMore("turns") PROVE SpentTyped'
  BY <1>0, <1>2, SpentFields DEF OneMore, SpentTyped
<1>3. ASSUME CanTurn, spent' = [spent EXCEPT !.codes = @ + 1, !.turns = @ + 1] PROVE SpentTyped'
  BY <1>0, <1>3, SpentFields DEF SpentTyped
<1>4. ASSUME CanSeal, spent.pairings < MaxPairings,
             spent' = [spent EXCEPT !.pairings = @ + 1, !.nonces = @ + 1]
      PROVE SpentTyped'
  BY <1>0, <1>4, SpentFields DEF SpentTyped
<1>5. \/ CanSeal /\ OneMore("nonces")
      \/ CanTurn /\ OneMore("turns")
      \/ CanTurn /\ spent' = [spent EXCEPT !.codes = @ + 1, !.turns = @ + 1]
      \/ CanSeal /\ spent.pairings < MaxPairings
           /\ spent' = [spent EXCEPT !.pairings = @ + 1, !.nonces = @ + 1]
      \/ UNCHANGED spent
  <2>1. ASSUME NEW i \in Installs,
               \/ Unlock(i) \/ CreateRecoveryCode(i) \/ Disconnect(i) \/ Lock(i)
               \/ MoveServer(i) \/ Restart(i) \/ Lose(i) \/ LoseRefresh(i)
               \/ \E phrase \in Phrases : \/ Change(i, phrase) \/ Adopt(i, phrase)
                                         \/ Pair(i, phrase) \/ Recover(i, phrase)
               \/ \E phrase \in Phrases, code \in 1..spent.codes :
                    RecoverWithCode(i, code, phrase)
               \/ \E p \in DOMAIN pairings : Approve(i, p)
               \/ \E d \in Made : Retire(i, d)
        PROVE  \/ CanSeal /\ OneMore("nonces")
               \/ CanTurn /\ OneMore("turns")
               \/ CanTurn /\ spent' = [spent EXCEPT !.codes = @ + 1, !.turns = @ + 1]
               \/ CanSeal /\ spent.pairings < MaxPairings
                    /\ spent' = [spent EXCEPT !.pairings = @ + 1, !.nonces = @ + 1]
               \/ UNCHANGED spent
    BY <2>1 DEF Unlock, CreateRecoveryCode, Disconnect, Lock, MoveServer, Restart, Lose,
       LoseRefresh, Change, Adopt, Pair, Recover, RecoverWithCode, Approve, Retire
  <2>2. ASSUME NEW i \in Installs,
               \/ LoginFind(i) \/ LoginIssue(i) \/ RequireAuth(i)
               \/ FileVerifier(i) \/ SetPassphrase(i) \/ SeedEnvelope(i)
               \/ SetRecoveryCode(i) \/ LookupPairing(i) \/ ApprovePairing(i)
               \/ RevokeDevice(i) \/ BeginPairing(i) \/ ClaimFind(i) \/ RecoverFind(i)
               \/ MakeDevice(i) \/ LoggedIn(i) \/ RefreshToken(i) \/ Proceed(i)
               \/ CancelPairing(i) \/ Opened(i) \/ SetsNewPhrase(i) \/ Take(i)
               \/ Changed(i) \/ Adopted(i) \/ Keep(i) \/ SealSeed(i) \/ Leave(i)
        PROVE  UNCHANGED spent
    BY <2>2 DEF LoginFind, LoginIssue, RequireAuth, FileVerifier, SetPassphrase, SeedEnvelope,
       SetRecoveryCode, LookupPairing, ApprovePairing, RevokeDevice, BeginPairing, ClaimFind,
       RecoverFind, MakeDevice, LoggedIn, RefreshToken, Proceed, CancelPairing, Opened,
       SetsNewPhrase, Take, Changed, Adopted, Keep, SealSeed, Leave, OwnKeys
  <2>3. ASSUME (\E p \in DOMAIN pairings : Expire(p)) \/ Disable \/ Enable \/ UNCHANGED vars
        PROVE  (CanTurn /\ OneMore("turns")) \/ UNCHANGED spent
    BY <2>3 DEF Expire, Disable, Enable, vars
  <2>4. QED
    BY Steps, <2>1, <2>2, <2>3
<1>6. QED
  BY <1>1, <1>2, <1>3, <1>4, <1>5 DEF SpentTyped

LEMMA ClientTypes ==
    ASSUME InstallsTyped, [Next]_vars
    PROVE  client' \in [Installs -> {"none", "held", "spent"}]
<1>1. ASSUME NEW i \in Installs, NEW to \in {"none", "held", "spent"},
             client' = [client EXCEPT ![i] = to]
      PROVE  client' \in [Installs -> {"none", "held", "spent"}]
  BY <1>1 DEF InstallsTyped
<1>2. ASSUME NEW i \in Installs,
             \/ Unlock(i) \/ CreateRecoveryCode(i) \/ Disconnect(i) \/ Lock(i)
             \/ MoveServer(i) \/ Restart(i) \/ Lose(i) \/ LoseRefresh(i)
             \/ \E phrase \in Phrases : \/ Change(i, phrase) \/ Adopt(i, phrase)
                                       \/ Pair(i, phrase) \/ Recover(i, phrase)
             \/ \E phrase \in Phrases, code \in 1..spent.codes :
                  RecoverWithCode(i, code, phrase)
             \/ \E p \in DOMAIN pairings : Approve(i, p)
             \/ \E d \in Made : Retire(i, d)
      PROVE  \/ \E to \in {"none", "held", "spent"} : client' = [client EXCEPT ![i] = to]
             \/ UNCHANGED client
  BY <1>2 DEF Unlock, CreateRecoveryCode, Disconnect, Released, Lock, MoveServer, Restart, Lose,
     LoseRefresh, Change, Adopt, Pair, Recover, RecoverWithCode, Approve, Retire, NewClient
<1>3. ASSUME NEW i \in Installs,
             \/ LoginFind(i) \/ LoginIssue(i) \/ RequireAuth(i)
             \/ FileVerifier(i) \/ SetPassphrase(i) \/ SeedEnvelope(i)
             \/ SetRecoveryCode(i) \/ LookupPairing(i) \/ ApprovePairing(i)
             \/ RevokeDevice(i) \/ BeginPairing(i) \/ ClaimFind(i) \/ RecoverFind(i)
             \/ MakeDevice(i) \/ LoggedIn(i) \/ RefreshToken(i) \/ Proceed(i)
             \/ CancelPairing(i) \/ Opened(i) \/ SetsNewPhrase(i) \/ Take(i)
             \/ Changed(i) \/ Adopted(i) \/ Keep(i) \/ SealSeed(i) \/ Leave(i)
      PROVE  \/ \E to \in {"none", "held", "spent"} : client' = [client EXCEPT ![i] = to]
             \/ UNCHANGED client
  BY <1>3 DEF LoginFind, LoginIssue, RequireAuth, FileVerifier, SetPassphrase, SeedEnvelope,
     SetRecoveryCode, LookupPairing, ApprovePairing, RevokeDevice, BeginPairing, ClaimFind,
     RecoverFind, MakeDevice, LoggedIn, RefreshToken, Proceed, CancelPairing, Opened,
     SetsNewPhrase, Take, Changed, Adopted, Keep, SealSeed, Leave, Released, OwnKeys
<1>4. ASSUME (\E p \in DOMAIN pairings : Expire(p)) \/ Disable \/ Enable \/ UNCHANGED vars
      PROVE  UNCHANGED client
  BY <1>4 DEF Expire, Disable, Enable, vars
<1>5. CASE UNCHANGED client
  BY <1>5 DEF InstallsTyped
<1>6. QED
  BY Steps, <1>1, <1>2, <1>3, <1>4, <1>5

\* The steps that reach the file, the session or what a person is told.
LEMMA HoldingSteps ==
    ASSUME [Next]_vars
    PROVE  \/ \E i \in Installs : \/ Disconnect(i) \/ Lock(i) \/ MoveServer(i) \/ Restart(i)
                                  \/ Opened(i) \/ Take(i) \/ Changed(i) \/ Adopted(i)
                                  \/ Keep(i) \/ Leave(i)
           \/ UNCHANGED <<data, session, told>>
<1>1. ASSUME NEW i \in Installs,
             \/ Unlock(i) \/ CreateRecoveryCode(i) \/ Lose(i) \/ LoseRefresh(i)
             \/ \E phrase \in Phrases : \/ Change(i, phrase) \/ Adopt(i, phrase)
                                       \/ Pair(i, phrase) \/ Recover(i, phrase)
             \/ \E phrase \in Phrases, code \in 1..spent.codes :
                  RecoverWithCode(i, code, phrase)
             \/ \E p \in DOMAIN pairings : Approve(i, p)
             \/ \E d \in Made : Retire(i, d)
      PROVE  UNCHANGED <<data, session, told>>
  BY <1>1 DEF Unlock, CreateRecoveryCode, Lose, LoseRefresh, Change, Adopt, Pair, Recover,
     RecoverWithCode, Approve, Retire
<1>2. ASSUME NEW i \in Installs,
             \/ LoginFind(i) \/ LoginIssue(i) \/ RequireAuth(i)
             \/ FileVerifier(i) \/ SetPassphrase(i) \/ SeedEnvelope(i)
             \/ SetRecoveryCode(i) \/ LookupPairing(i) \/ ApprovePairing(i)
             \/ RevokeDevice(i) \/ BeginPairing(i) \/ ClaimFind(i) \/ RecoverFind(i)
             \/ MakeDevice(i) \/ LoggedIn(i) \/ RefreshToken(i) \/ Proceed(i)
             \/ CancelPairing(i) \/ SetsNewPhrase(i) \/ SealSeed(i)
      PROVE  UNCHANGED <<data, session, told>>
  BY <1>2 DEF LoginFind, LoginIssue, RequireAuth, FileVerifier, SetPassphrase, SeedEnvelope,
     SetRecoveryCode, LookupPairing, ApprovePairing, RevokeDevice, BeginPairing, ClaimFind,
     RecoverFind, MakeDevice, LoggedIn, RefreshToken, Proceed, CancelPairing, SetsNewPhrase,
     SealSeed, OwnKeys
<1>3. ASSUME (\E p \in DOMAIN pairings : Expire(p)) \/ Disable \/ Enable \/ UNCHANGED vars
      PROVE  UNCHANGED <<data, session, told>>
  BY <1>3 DEF Expire, Disable, Enable, vars
<1>4. QED
  BY Steps, <1>1, <1>2, <1>3

\* What a way in writes down.
LEMMA Taken ==
    ASSUME AsksTyped, DevicesTyped, NEW i \in Installs, Take(i)
    PROVE  LET conn == [device |-> ask[i].device, env |-> ask[i].env]
               new == [conn |-> conn, open |-> TRUE, stale |-> FALSE, seen |-> ask[i].shown] IN
           /\ conn \in Connection /\ conn.env = ask[i].env /\ Fits(ask[i])
           /\ new \in Session /\ new.conn = conn /\ new.seen = ask[i].shown
           /\ ask[i].phrase \in Phrases
<1> DEFINE conn == [device |-> ask[i].device, env |-> ask[i].env]
           new == [conn |-> conn, open |-> TRUE, stale |-> FALSE, seen |-> ask[i].shown]
<1>1. /\ ask[i] # Idle
      /\ \/ ask[i].kind \in {"pair", "recover"} /\ ask[i].step = "verifier"
         \/ ask[i].kind = "redeem" /\ ask[i].step = "passphrase"
  BY Blanks DEF Take, AfterRepair, Done
<1>2. /\ ask[i] \in Ask
      /\ \/ Pairs(ask[i], Made, DOMAIN pairings) \/ Recovering(ask[i], Made)
         \/ Redeeming(ask[i], Made)
  BY <1>1 DEF AsksTyped, Carries, Opening, Changing, Adopting, Approving, Acting
<1>3. Fits(ask[i]) /\ ask[i].phrase \in Phrases /\ ask[i].device # 0 /\ ask[i].env \in Envelope
  BY <1>1, <1>2 DEF Pairs, Recovering, Redeeming, ComesWithNothing, Fits
<1>4. ask[i].device \in 1..MaxRows /\ ask[i].shown \in Nat
  BY <1>2, <1>3, Bounds DEF Ask
<1>5. conn \in Connection /\ conn.env = ask[i].env
  BY <1>3, <1>4 DEF Connection
<1> HIDE DEF conn
<1>6. new \in Session /\ new.conn = conn /\ new.seen = ask[i].shown
  <2>1. \A c \in Connection, n \in Nat :
          [conn |-> c, open |-> TRUE, stale |-> FALSE, seen |-> n] \in Session
    <3>1. TRUE \in BOOLEAN /\ FALSE \in BOOLEAN
      OBVIOUS
    <3>2. QED
      BY <3>1, Zenon DEF Session
  <2>2. new \in Session
    BY <1>4, <1>5, <2>1, Zenon
  <2>3. new.conn = conn /\ new.seen = ask[i].shown
    OBVIOUS
  <2>4. QED
    BY <2>2, <2>3
<1>7. QED
  BY <1>3, <1>5, <1>6 DEF conn

\* What is kept is what a session holds.
LEMMA Keeping ==
    ASSUME AsksTyped, InstallsTyped, NEW i \in Installs, Keep(i)
    PROVE  /\ session[i] # None /\ session[i].conn \in Connection /\ ask[i].phrase \in Phrases
           /\ ask[i].kind \in {"change", "adopt"}
<1>1. ask[i] # Idle /\ ask[i].step = "keep"
  BY Blanks DEF Keep
<1>2. Changing(ask[i]) \/ Adopting(ask[i])
  BY <1>1 DEF AsksTyped, Carries, Opening, Approving, Acting, Pairs, Recovering, Redeeming
<1>3. session[i] # None
  BY <1>1, <1>2 DEF AsksTyped, Changing, Adopting, Bootstraps
<1>4. QED
  BY <1>2, <1>3, Mines DEF Changing, Adopting

\* Who unlocked holds something.
LEMMA Unlocked ==
    ASSUME AsksTyped, InstallsTyped, NEW i \in Installs, Opened(i)
    PROVE  /\ session[i] \in Session /\ session[i] # None /\ ask[i].shown \in Nat
           /\ session' \in [Installs -> Session \cup {None}]
           /\ session'[i].conn = session[i].conn /\ session'[i].seen = ask[i].shown
           /\ session'[i].stale <=> ask[i].env # session[i].conn.env
           /\ session'[i] # None
           /\ \A j \in Installs \ {i} : session'[j] = session[j]
<1>1. ask[i] # Idle /\ ask[i].kind = "open"
  BY Blanks DEF Opened, AfterRepair
<1>2. session[i] # None /\ ask[i] \in Ask
  BY <1>1 DEF AsksTyped, Bootstraps
<1>3. session[i] \in Session /\ ask[i].shown \in Nat
  BY <1>2, Mines DEF Ask
<1>4. \E stale \in BOOLEAN :
        /\ stale <=> ask[i].env # session[i].conn.env
        /\ session' = [session EXCEPT ![i] = [session[i] EXCEPT !.open = TRUE,
                                                !.seen = ask[i].shown, !.stale = stale]]
  BY DEF Opened
<1>5. PICK stale \in BOOLEAN :
        /\ stale <=> ask[i].env # session[i].conn.env
        /\ session' = [session EXCEPT ![i] = [session[i] EXCEPT !.open = TRUE,
                                                !.seen = ask[i].shown, !.stale = stale]]
  BY <1>4
<1> DEFINE new == [session[i] EXCEPT !.open = TRUE, !.seen = ask[i].shown, !.stale = stale]
<1>6. /\ new \in Session /\ new.conn = session[i].conn /\ new.seen = ask[i].shown
      /\ new.stale = stale
  BY <1>3 DEF Session
<1>7. session' = [session EXCEPT ![i] = new]
  BY <1>5
<1> HIDE DEF new
<1>8. session'[i] = new
  BY <1>7 DEF InstallsTyped
<1>9. QED
  BY <1>2, <1>3, <1>5, <1>6, <1>7, <1>8, NoneIsApart DEF InstallsTyped

LEMMA InstallTypes ==
    ASSUME InstallsTyped, AsksTyped, DevicesTyped, [Next]_vars
    PROVE  InstallsTyped'
<1> DEFINE Goal == /\ data' \in [Installs -> Connection \cup {None}]
                   /\ session' \in [Installs -> Session \cup {None}]
                   /\ \A i \in Installs : data'[i] = None <=> session'[i] = None
                   /\ told' \in [Installs -> Phrases \cup {None}]
<1>1. ASSUME NEW i \in Installs, Released(i) PROVE Goal
  BY <1>1 DEF Released, InstallsTyped
<1>2. ASSUME NEW i \in Installs, Disconnect(i) \/ Leave(i) PROVE Goal
  <2>1. Released(i) \/ UNCHANGED <<data, session, told>>
    BY <1>2 DEF Disconnect, Leave
  <2>2. QED
    BY <1>1, <2>1 DEF InstallsTyped
<1>3. ASSUME NEW i \in Installs, MoveServer(i) \/ Restart(i) PROVE Goal
  <2>1. session' = [session EXCEPT ![i] = FromFile(i)] /\ UNCHANGED <<data, told>>
    BY <1>3 DEF MoveServer, Restart
  <2>2. FromFile(i) \in Session \cup {None} /\ (FromFile(i) = None <=> data[i] = None)
    BY FromFiles
  <2>3. QED
    BY <2>1, <2>2 DEF InstallsTyped
<1>4. ASSUME NEW i \in Installs, Lock(i) PROVE Goal
  <2> DEFINE new == [session[i] EXCEPT !.open = FALSE, !.seen = 0]
  <2>1. session[i] # None /\ session[i] \in Session
    BY <1>4, Mines DEF Lock, IsOpen
  <2>2. session' = [session EXCEPT ![i] = new] /\ UNCHANGED <<data, told>>
    BY <1>4 DEF Lock
  <2>3. new \in Session
    BY <2>1 DEF Session
  <2> HIDE DEF new
  <2>4. QED
    BY <2>1, <2>2, <2>3, NoneIsApart DEF InstallsTyped
<1>5. ASSUME NEW i \in Installs, Opened(i) PROVE Goal
  <2>1. UNCHANGED <<data, told>>
    BY <1>5 DEF Opened
  <2>2. QED
    BY <1>5, <2>1, Unlocked DEF InstallsTyped
<1>6. ASSUME NEW i \in Installs, Take(i) PROVE Goal
  <2> DEFINE conn == [device |-> ask[i].device, env |-> ask[i].env]
             new == [conn |-> conn, open |-> TRUE, stale |-> FALSE, seen |-> ask[i].shown]
  <2>1. conn \in Connection /\ new \in Session /\ ask[i].phrase \in Phrases
    BY <1>6, Taken
  <2>2. /\ data' = [data EXCEPT ![i] = conn] /\ session' = [session EXCEPT ![i] = new]
        /\ told' = [told EXCEPT ![i] = ask[i].phrase]
    BY <1>6 DEF Take
  <2> HIDE DEF conn, new
  <2>3. conn # None /\ new # None
    BY <2>1, NoneIsApart
  <2>4. QED
    BY <2>1, <2>2, <2>3 DEF InstallsTyped
<1>7. ASSUME NEW i \in Installs, Keep(i) PROVE Goal
  <2>1. /\ data' = [data EXCEPT ![i] = session[i].conn] /\ session' = session
        /\ told' = [told EXCEPT ![i] = ask[i].phrase]
    BY <1>7 DEF Keep
  <2>2. session[i] # None /\ session[i].conn \in Connection /\ ask[i].phrase \in Phrases
    BY <1>7, Keeping
  <2>3. session[i].conn # None
    BY <2>2, NoneIsApart
  <2>4. QED
    BY <2>1, <2>2, <2>3 DEF InstallsTyped
<1>8. ASSUME NEW i \in Installs, Changed(i) \/ Adopted(i) PROVE Goal
  <2>1. UNCHANGED <<data, told>>
    BY <1>8 DEF Changed, Adopted
  <2>2. CASE UNCHANGED session
    BY <2>1, <2>2 DEF InstallsTyped
  <2>3. CASE Holds(i, ask[i].env, ask[i].shown)
    <3>1. /\ ask[i] # Idle /\ ask[i].at = "done"
          /\ ask[i].kind \in {"change", "adopt"}
      BY <1>8, Blanks DEF Changed, Adopted, Done
    <3>2. ask[i].env \in Envelope /\ ask[i].shown \in Nat /\ session[i] # None
      BY <3>1 DEF AsksTyped, Ask, Carries, Opening, Changing, Adopting, Approving, Acting, Pairs,
         Recovering, Redeeming, Fits, Bootstraps
    <3>3. QED
      BY <2>1, <2>3, <3>2, HeldAnew DEF InstallsTyped
  <2>4. QED
    BY <1>8, <2>2, <2>3 DEF Changed, Adopted
<1>9. Goal
  <2>1. CASE UNCHANGED <<data, session, told>>
    BY <2>1 DEF InstallsTyped
  <2>2. QED
    BY HoldingSteps, <1>2, <1>3, <1>4, <1>5, <1>6, <1>7, <1>8, <2>1
<1>10. QED
  BY <1>9, ClientTypes DEF InstallsTyped

------------------------------------------------------------------------------
(* What was shown.                                                          *)

\* An operation begun or ended, gone on with, or shown the account's envelope.
ShownNothing(b) == b.shown = 0 /\ ~WasShown(b) /\ b.step # "keep"
ShownAsBefore(a, b) ==
    /\ b.shown = a.shown /\ b.env = a.env /\ b.step # "keep"
    /\ WasShown(b) => WasShown(a)
ShownNow(b) ==
    b.shown = account.filings /\ (WasShown(b) => b.env = account.env) /\ b.step # "keep"

ShownRightly(i) ==
    /\ \A j \in Installs \ {i} : ask'[j] = ask[j]
    /\ ShownNothing(ask'[i]) \/ ShownAsBefore(ask[i], ask'[i]) \/ ShownNow(ask'[i])

LEMMA ShownInStarts ==
    ASSUME AsksTyped, InstallsTyped, NEW i \in Installs,
           \/ Unlock(i) \/ CreateRecoveryCode(i) \/ Disconnect(i)
           \/ \E phrase \in Phrases : \/ Change(i, phrase) \/ Adopt(i, phrase)
                                     \/ Pair(i, phrase) \/ Recover(i, phrase)
           \/ \E phrase \in Phrases, code \in 1..spent.codes : RecoverWithCode(i, code, phrase)
           \/ \E p \in DOMAIN pairings : Approve(i, p)
           \/ \E d \in Made : Retire(i, d)
    PROVE  ShownRightly(i)
<1>0. ASSUME NEW x, ask' = [ask EXCEPT ![i] = x], ShownNothing(x) PROVE ShownRightly(i)
  BY <1>0 DEF ShownRightly, AsksTyped
<1>00. ShownNothing(Idle)
  BY Blanks DEF ShownNothing, WasShown
<1>1. CASE Unlock(i)
  <2> DEFINE x == To([Mine(i) EXCEPT !.phrase = session[i].conn.env.phrase], "login")
  <2>1. x.kind = "open" /\ x.step = "login" /\ x.at = "sent" /\ x.shown = 0
    BY DEF Mine, To, Blank
  <2>2. ShownNothing(x)
    BY <2>1 DEF ShownNothing, WasShown
  <2>3. QED
    BY <1>0, <1>1, <2>2 DEF Unlock, Send
<1>2. CASE CreateRecoveryCode(i)
  <2> DEFINE x == To([Mine(i) EXCEPT !.kind = "code", !.code = spent.codes + 1], "code")
  <2>1. x.kind = "code" /\ x.step = "code" /\ x.shown = 0
    BY DEF Mine, To, Blank
  <2>2. ShownNothing(x)
    BY <2>1 DEF ShownNothing, WasShown
  <2>3. QED
    BY <1>0, <1>2, <2>2 DEF CreateRecoveryCode, Send
<1>3. CASE Disconnect(i)
  <2> DEFINE x == To([Mine(i) EXCEPT !.kind = "leave", !.target = Mine(i).device], "revoke")
  <2>1. x.kind = "leave" /\ x.step = "revoke" /\ x.shown = 0
    BY DEF Mine, To, Blank
  <2>2. ShownNothing(x)
    BY <2>1 DEF ShownNothing, WasShown
  <2>3. ask' = [ask EXCEPT ![i] = x] \/ ask' = [ask EXCEPT ![i] = Idle]
    BY <1>3 DEF Disconnect, Send, Free, AsksTyped
  <2>4. QED
    BY <1>0, <1>00, <2>2, <2>3
<1>4. ASSUME NEW phrase \in Phrases, Change(i, phrase) PROVE ShownRightly(i)
  <2> DEFINE x == To([Mine(i) EXCEPT !.kind = "change", !.phrase = phrase,
                                     !.env = Sealed(phrase)], "passphrase")
  <2>1. x.kind = "change" /\ x.step = "passphrase" /\ x.at = "sent" /\ x.shown = 0
    BY DEF Mine, To, Blank
  <2>2. ShownNothing(x)
    BY <2>1 DEF ShownNothing, WasShown
  <2>3. QED
    BY <1>0, <1>4, <2>2 DEF Change, Send
<1>5. ASSUME NEW phrase \in Phrases, Adopt(i, phrase) PROVE ShownRightly(i)
  <2> DEFINE x == To([Mine(i) EXCEPT !.kind = "adopt", !.phrase = phrase], "envelope")
  <2>1. x.kind = "adopt" /\ x.step = "envelope" /\ x.at = "sent" /\ x.shown = 0
    BY DEF Mine, To, Blank
  <2>2. ShownNothing(x)
    BY <2>1 DEF ShownNothing, WasShown
  <2>3. QED
    BY <1>0, <1>5, <2>2 DEF Adopt, Send
<1>6. ASSUME NEW phrase \in Phrases, Pair(i, phrase) PROVE ShownRightly(i)
  <2> DEFINE x == [Blank EXCEPT !.kind = "pair", !.step = "begin", !.phrase = phrase,
                                !.env = Sealed(phrase)]
  <2>1. x.kind = "pair" /\ x.step = "begin" /\ x.shown = 0
    BY DEF Blank
  <2>2. ShownNothing(x)
    BY <2>1 DEF ShownNothing, WasShown
  <2>3. QED
    BY <1>0, <1>6, <2>2 DEF Pair, Send
<1>7. ASSUME NEW phrase \in Phrases, Recover(i, phrase) PROVE ShownRightly(i)
  <2> DEFINE x == [Blank EXCEPT !.kind = "recover", !.step = "recover", !.phrase = phrase]
  <2>1. x.kind = "recover" /\ x.step = "recover" /\ x.at = "sent" /\ x.shown = 0
    BY DEF Blank
  <2>2. ShownNothing(x)
    BY <2>1 DEF ShownNothing, WasShown
  <2>3. QED
    BY <1>0, <1>7, <2>2 DEF Recover, Send
<1>8. ASSUME NEW phrase \in Phrases, NEW code \in 1..spent.codes,
             RecoverWithCode(i, code, phrase)
      PROVE  ShownRightly(i)
  <2> DEFINE x == [Blank EXCEPT !.kind = "redeem", !.step = "recover", !.code = code,
                                !.phrase = phrase, !.env = Sealed(phrase)]
  <2>1. x.kind = "redeem" /\ x.step = "recover" /\ x.shown = 0
    BY DEF Blank
  <2>2. ShownNothing(x)
    BY <2>1 DEF ShownNothing, WasShown
  <2>3. QED
    BY <1>0, <1>8, <2>2 DEF RecoverWithCode, Send
<1>9. ASSUME NEW p \in DOMAIN pairings, Approve(i, p) PROVE ShownRightly(i)
  <2> DEFINE x == To([Mine(i) EXCEPT !.kind = "approve", !.pairing = p], "lookup")
  <2>1. x.kind = "approve" /\ x.step = "lookup" /\ x.shown = 0
    BY DEF Mine, To, Blank
  <2>2. ShownNothing(x)
    BY <2>1 DEF ShownNothing, WasShown
  <2>3. QED
    BY <1>0, <1>9, <2>2 DEF Approve, Send
<1>10. ASSUME NEW d \in Made, Retire(i, d) PROVE ShownRightly(i)
  <2> DEFINE x == To([Mine(i) EXCEPT !.kind = "retire", !.target = d], "revoke")
  <2>1. x.kind = "retire" /\ x.step = "revoke" /\ x.shown = 0
    BY DEF Mine, To, Blank
  <2>2. ShownNothing(x)
    BY <2>1 DEF ShownNothing, WasShown
  <2>3. QED
    BY <1>0, <1>10, <2>2 DEF Retire, Send
<1>11. QED
  BY <1>1, <1>2, <1>3, <1>4, <1>5, <1>6, <1>7, <1>8, <1>9, <1>10

\* A stage later it is what it was, but for the answers that show something.
LEMMA ShownByStage ==
    ASSUME AsksTyped, NEW i \in Installs, ask[i] # Idle, ask[i].step # "keep",
           NEW at \in {"in", "done"}, Answer(i, at),
           at = "in" => ask[i].step \in Authenticated \cup {"claim"},
           at = "done" => /\ ask[i].step \notin {"envelope", "passphrase"}
                          /\ ask[i].step = "login" => ask[i].at # "sent"
                          /\ ask[i].step = "recover" => ask[i].at # "sent"
    PROVE  ShownRightly(i)
<1> DEFINE x == [ask[i] EXCEPT !.at = at]
<1>1. ask[i] \in Ask /\ Carries(ask[i], Made, DOMAIN pairings)
  BY DEF AsksTyped
<1>2. /\ x.at = at /\ x.kind = ask[i].kind /\ x.step = ask[i].step
      /\ x.env = ask[i].env /\ x.shown = ask[i].shown
  BY <1>1, AnotherStage
<1>3. ask' = [ask EXCEPT ![i] = x]
  BY DEF Answer, AsksTyped
<1> HIDE DEF x
<1>4. WasShown(x) => WasShown(ask[i])
  BY <1>1, <1>2 DEF WasShown, Carries, Opening, Changing, Adopting, Approving, Acting, Pairs,
     Recovering, Redeeming, Authenticated
<1>5. ShownAsBefore(ask[i], x)
  BY <1>2, <1>4 DEF ShownAsBefore
<1>6. QED
  BY <1>3, <1>5 DEF ShownRightly, AsksTyped

LEMMA ShownByFailing ==
    ASSUME AsksTyped, NEW i \in Installs, ask[i] # Idle, ask[i].step # "keep", Fail(i) \/ End(i)
    PROVE  ShownRightly(i)
<1>1. CASE ask' = [ask EXCEPT ![i] = Idle]
  BY <1>1, Blanks DEF ShownRightly, ShownNothing, WasShown, AsksTyped
<1>2. CASE Answer(i, "done") /\ (ask[i].step = "verifier" \/ ask[i].kind = "leave")
  <2>1. ask[i].kind = "leave" => ask[i].step = "revoke"
    BY DEF AsksTyped, Carries, Opening, Changing, Adopting, Approving, Acting, Pairs,
       Recovering, Redeeming
  <2>2. QED
    BY <1>2, <2>1, ShownByStage
<1>3. QED
  BY <1>1, <1>2 DEF Fail, End, Send

LEMMA ShownInRoutes ==
    ASSUME AsksTyped, AccountTyped, NEW i \in Installs,
           \/ LoginFind(i) \/ LoginIssue(i) \/ RequireAuth(i) \/ RefreshToken(i)
           \/ FileVerifier(i) \/ SeedEnvelope(i)
           \/ SetRecoveryCode(i) \/ LookupPairing(i) \/ ApprovePairing(i)
           \/ RevokeDevice(i) \/ BeginPairing(i) \/ ClaimFind(i) \/ RecoverFind(i)
           \/ MakeDevice(i)
    PROVE  ShownRightly(i)
<1>1. ask[i].step \in Anonymous \cup Authenticated /\ ask[i] # Idle /\ ask[i].step # "keep"
  BY Blanks DEF LoginFind, LoginIssue, RequireAuth, RefreshToken, FileVerifier,
     SeedEnvelope, SetRecoveryCode, LookupPairing, ApprovePairing, RevokeDevice, BeginPairing,
     ClaimFind, RecoverFind, MakeDevice, Handled, Anonymous, Authenticated
<1>2. ask[i] \in Ask /\ Carries(ask[i], Made, DOMAIN pairings)
  BY <1>1 DEF AsksTyped
<1>3. ASSUME Fail(i) \/ End(i) PROVE ShownRightly(i)
  BY <1>1, <1>3, ShownByFailing
<1>4. ASSUME NEW x, ask' = [ask EXCEPT ![i] = x], ShownNow(x) \/ ShownAsBefore(ask[i], x)
      PROVE  ShownRightly(i)
  BY <1>4 DEF ShownRightly, AsksTyped
<1>5. ASSUME LoginFind(i) PROVE ShownRightly(i)
  <2>1. CASE Fail(i)
    BY <1>3, <2>1
  <2>2. CASE ask[i].kind = "open" /\ ~Fail(i)
    <3> DEFINE x == [ask[i] EXCEPT !.at = "in", !.env = account.env, !.shown = account.filings]
    <3>1. x.step = ask[i].step /\ x.env = account.env /\ x.shown = account.filings
      BY <1>2 DEF Ask
    <3>2. ask' = [ask EXCEPT ![i] = x]
      BY <1>5, <2>2 DEF LoginFind, Send
    <3> HIDE DEF x
    <3>3. QED
      BY <1>1, <1>4, <3>1, <3>2 DEF ShownNow
  <2>3. CASE ask[i].kind # "open" /\ ~Fail(i)
    <3> DEFINE x == [ask[i] EXCEPT !.at = "in"]
    <3>1. ask' = [ask EXCEPT ![i] = x] /\ ask[i].step = "login"
      BY <1>5, <2>3 DEF LoginFind, Send
    <3>2. /\ x.at = "in" /\ x.kind = ask[i].kind /\ x.step = ask[i].step
          /\ x.env = ask[i].env /\ x.shown = ask[i].shown
      BY <1>2, AnotherStage
    <3> HIDE DEF x
    <3>3. WasShown(x) => WasShown(ask[i])
      BY <2>3, <3>1, <3>2 DEF WasShown
    <3>4. QED
      BY <1>1, <1>4, <3>1, <3>2, <3>3 DEF ShownAsBefore
  <2>4. QED
    BY <2>1, <2>2, <2>3
<1>6. ASSUME LoginIssue(i) \/ RequireAuth(i) \/ RefreshToken(i) \/ FileVerifier(i)
             \/ LookupPairing(i) \/ ClaimFind(i)
      PROVE  ShownRightly(i)
  <2>1. \/ Fail(i)
        \/ \E at \in {"in", "done"} :
             /\ Answer(i, at)
             /\ at = "in" => ask[i].step \in Authenticated \cup {"claim"}
             /\ at = "done" => ask[i].step \in {"verifier", "lookup", "claim"}
                               \/ (ask[i].step = "login" /\ ask[i].at = "in")
    BY <1>6 DEF LoginIssue, RequireAuth, RefreshToken, FileVerifier, LookupPairing, ClaimFind,
       Handled
  <2>2. QED
    BY <1>1, <1>3, <2>1, ShownByStage
<1>7. ASSUME SeedEnvelope(i) PROVE ShownRightly(i)
  <2>1. CASE Fail(i)
    BY <1>3, <2>1
  <2>2. CASE ~Fail(i)
    <3> DEFINE x == [ask[i] EXCEPT !.at = "done", !.env = account.env, !.shown = account.filings]
    <3>1. x.step = ask[i].step /\ x.env = account.env /\ x.shown = account.filings
      BY <1>2 DEF Ask
    <3>2. ask' = [ask EXCEPT ![i] = x]
      BY <1>7, <2>2 DEF SeedEnvelope, Send
    <3> HIDE DEF x
    <3>3. QED
      BY <1>1, <1>4, <3>1, <3>2 DEF ShownNow
  <2>3. QED
    BY <2>1, <2>2
<1>8. ASSUME SetRecoveryCode(i) \/ ApprovePairing(i) PROVE ShownRightly(i)
  BY <1>3, <1>8 DEF SetRecoveryCode, ApprovePairing
<1>9. ASSUME RevokeDevice(i) PROVE ShownRightly(i)
  <2>1. End(i) \/ (Answer(i, "done") /\ ask[i].step = "revoke")
    BY <1>9 DEF RevokeDevice, Handled
  <2>2. QED
    BY <1>1, <1>3, <2>1, ShownByStage
<1>10. ASSUME BeginPairing(i) PROVE ShownRightly(i)
  <2> DEFINE p == Cardinality(DOMAIN pairings) + 1
             x == [ask[i] EXCEPT !.at = "done", !.pairing = p]
  <2>1. ask' = [ask EXCEPT ![i] = x] /\ ask[i].step = "begin"
    BY <1>10 DEF BeginPairing, Send
  <2> HIDE DEF p
  <2>2. /\ x.kind = ask[i].kind /\ x.step = ask[i].step /\ x.env = ask[i].env
        /\ x.shown = ask[i].shown
    BY <1>2 DEF Ask
  <2> HIDE DEF x
  <2>3. ~WasShown(x)
    BY <1>2, <2>1, <2>2 DEF WasShown, Carries, Opening, Changing, Adopting, Approving, Acting,
       Pairs, Recovering, Redeeming
  <2>4. QED
    BY <1>1, <1>4, <2>1, <2>2, <2>3 DEF ShownAsBefore
<1>11. ASSUME RecoverFind(i) PROVE ShownRightly(i)
  <2>1. CASE Fail(i)
    BY <1>3, <2>1
  <2>2. CASE ~Fail(i)
    <3> DEFINE env == IF ask[i].kind = "recover" THEN account.env ELSE ask[i].env
               x == [ask[i] EXCEPT !.at = "in", !.shown = account.filings, !.env = env]
    <3>1. ask' = [ask EXCEPT ![i] = x] /\ ask[i].step = "recover"
      BY <1>11, <2>2 DEF RecoverFind, Send
    <3>2. ask[i].kind \in {"recover", "redeem"} /\ (ask[i].kind = "recover" => env = account.env)
      BY <1>2, <3>1 DEF Carries, Opening, Changing, Adopting, Approving, Acting,
         Pairs, Recovering, Redeeming
    <3> HIDE DEF env
    <3>3. /\ x.kind = ask[i].kind /\ x.step = "recover" /\ x.env = env /\ x.shown = account.filings
      BY <1>2, <3>1 DEF Ask
    <3> HIDE DEF x
    <3>4. ShownNow(x)
      BY <3>2, <3>3 DEF ShownNow, WasShown
    <3>5. QED
      BY <1>4, <3>1, <3>4
  <2>3. QED
    BY <2>1, <2>2
<1>12. ASSUME MakeDevice(i) PROVE ShownRightly(i)
  <2>1. CASE Fail(i)
    BY <1>3, <2>1
  <2>2. CASE ~Fail(i)
    <3> DEFINE x == [ask[i] EXCEPT !.at = "done", !.device = NextRow]
    <3>1. /\ ask' = [ask EXCEPT ![i] = x] /\ ask[i].step \in {"claim", "recover"}
          /\ ask[i].at = "in"
      BY <1>12, <2>2 DEF MakeDevice, Send
    <3>2. /\ x.kind = ask[i].kind /\ x.step = ask[i].step /\ x.env = ask[i].env
          /\ x.shown = ask[i].shown
      BY <1>2 DEF Ask
    <3> HIDE DEF x
    <3>3. WasShown(x) => WasShown(ask[i])
      BY <1>2, <3>1, <3>2 DEF WasShown, Carries, Opening, Changing, Adopting, Approving, Acting,
         Pairs, Recovering, Redeeming
    <3>4. QED
      BY <1>1, <1>4, <3>1, <3>2, <3>3 DEF ShownAsBefore
  <2>3. QED
    BY <2>1, <2>2
<1>13. QED
  BY <1>5, <1>6, <1>7, <1>8, <1>9, <1>10, <1>11, <1>12

LEMMA ShownInContinuing ==
    ASSUME AsksTyped, NEW i \in Installs,
           \/ LoggedIn(i) \/ Proceed(i) \/ CancelPairing(i) \/ Opened(i) \/ SetsNewPhrase(i)
           \/ Take(i) \/ Keep(i) \/ SealSeed(i) \/ Leave(i)
           \/ Lose(i) \/ LoseRefresh(i) \/ Restart(i)
    PROVE  ShownRightly(i)
<1>0. ASSUME NEW x, ask' = [ask EXCEPT ![i] = x], ShownNothing(x) \/ ShownAsBefore(ask[i], x)
      PROVE  ShownRightly(i)
  BY <1>0 DEF ShownRightly, AsksTyped
<1>1. CASE End(i)
  BY <1>1, Blanks DEF End, Send, ShownRightly, ShownNothing, WasShown, AsksTyped
<1>2. CASE ~End(i)
  <2>1. ask[i] # Idle /\ ask[i].step # "keep"
    BY <1>2, Blanks DEF LoggedIn, Proceed, CancelPairing, Opened, SetsNewPhrase, Take,
       Keep, SealSeed, Leave, Lose, LoseRefresh, Restart, Done, AfterRepair, Authenticated
  <2>2. ask[i] \in Ask /\ Carries(ask[i], Made, DOMAIN pairings)
    BY <2>1 DEF AsksTyped
  <2>3. ASSUME Fail(i) PROVE ShownRightly(i)
    BY <2>1, <2>3, ShownByFailing
  <2>4. ASSUME LoggedIn(i) PROVE ShownRightly(i)
    <3>1. PICK x \in {To(ask[i], "verifier"), [ask[i] EXCEPT !.step = "verifier", !.at = "done"]} :
            ask' = [ask EXCEPT ![i] = x]
      BY <2>4 DEF LoggedIn, Send
    <3>2. /\ x.kind = ask[i].kind /\ x.step = "verifier" /\ x.env = ask[i].env
          /\ x.shown = ask[i].shown
      BY <2>2 DEF To, Ask
    <3>3. ask[i].step = "login" /\ ask[i].at = "done"
      BY <2>4 DEF LoggedIn
    <3>4. WasShown(x) => WasShown(ask[i])
      BY <2>2, <3>2, <3>3 DEF WasShown, Carries, Opening, Changing, Adopting, Approving, Acting,
         Pairs, Recovering, Redeeming
    <3>5. QED
      BY <1>0, <3>1, <3>2, <3>4 DEF ShownAsBefore
  <2>5. ASSUME NEW step \in {"claim", "login", "passphrase", "approve"},
               ask' = [ask EXCEPT ![i] = To(ask[i], step)], ask[i].kind # "open",
               ask[i].kind \in {"pair", "recover", "redeem", "approve"},
               ask[i].kind = "recover" => ask[i].step # "recover" \/ ask[i].at # "sent"
        PROVE  ShownRightly(i)
    <3> DEFINE x == To(ask[i], step)
    <3>1. /\ x.kind = ask[i].kind /\ x.step = step /\ x.at = "sent" /\ x.env = ask[i].env
          /\ x.shown = ask[i].shown
      BY <2>2 DEF To, Ask
    <3>2. ask' = [ask EXCEPT ![i] = x]
      BY <2>5
    <3> HIDE DEF x
    <3>3. WasShown(x) => WasShown(ask[i])
      BY <2>5, <3>1 DEF WasShown
    <3>4. QED
      BY <1>0, <3>1, <3>2, <3>3 DEF ShownAsBefore
  <2>6. ASSUME Proceed(i) PROVE ShownRightly(i)
    <3>1. /\ ask[i].at = "done" /\ ask[i].step \in {"begin", "claim", "recover"}
          /\ \E step \in {"claim", "login"} : ask' = [ask EXCEPT ![i] = To(ask[i], step)]
      BY <1>2, <2>6 DEF Proceed, Send, End
    <3>2. ask[i].kind \in {"pair", "recover", "redeem"}
      BY <2>2, <3>1 DEF Carries, Opening, Changing, Adopting, Approving, Acting,
         Pairs, Recovering, Redeeming
    <3>3. QED
      BY <2>5, <3>1, <3>2
  <2>7. ASSUME SetsNewPhrase(i) \/ SealSeed(i) PROVE ShownRightly(i)
    <3>1. /\ ask[i].at = "done" /\ ask[i].kind \in {"redeem", "approve"}
          /\ \E step \in {"passphrase", "approve"} : ask' = [ask EXCEPT ![i] = To(ask[i], step)]
      BY <2>7 DEF SetsNewPhrase, SealSeed, AfterRepair, Done, Send
    <3>2. QED
      BY <2>5, <3>1
  <2>8. CASE CancelPairing(i) \/ Lose(i) \/ LoseRefresh(i)
    BY <2>3, <2>8 DEF CancelPairing, Lose, LoseRefresh
  <2>9. QED
    BY <1>2, <2>4, <2>6, <2>7, <2>8 DEF Opened, Take, Keep, Leave, Restart
<1>3. QED
  BY <1>1, <1>2

\* A phrase changed, or adopted, is what the session now holds and what is to be kept.
LEMMA ToBeKept ==
    ASSUME AsksTyped, InstallsTyped, NEW i \in Installs, Changed(i) \/ Adopted(i),
           ~ShownRightly(i)
    PROVE  /\ ask[i] # Idle /\ WasShown(ask[i]) /\ Fits(ask[i]) /\ ask[i].shown \in Nat
           /\ session[i] # None /\ Holds(i, ask[i].env, ask[i].shown)
           /\ \A j \in Installs \ {i} : ask'[j] = ask[j]
           /\ ask'[i].shown = ask[i].shown /\ ask'[i].env = ask[i].env
           /\ ask'[i].phrase = ask[i].phrase
<1>1. /\ ask[i] # Idle /\ ask[i].at = "done" /\ ask[i].kind \in {"change", "adopt"}
      /\ ask[i].step # "keep"
  BY Blanks DEF Changed, Adopted, Done
<1>2. /\ ask[i] \in Ask /\ session[i] # None
      /\ Changing(ask[i]) \/ Adopting(ask[i])
  BY <1>1 DEF AsksTyped, Bootstraps, Carries, Opening, Changing, Adopting, Approving, Acting,
     Pairs, Recovering, Redeeming
<1>3. ~Fail(i)
  BY <1>1, ShownByFailing
<1>4. /\ Holds(i, ask[i].env, ask[i].shown) /\ ask' = [ask EXCEPT ![i] = To(ask[i], "keep")]
      /\ ask[i].kind = "adopt" => ask[i].env.phrase = ask[i].phrase
  BY <1>3 DEF Changed, Adopted, Send, Done
<1>5. WasShown(ask[i])
  BY <1>1 DEF WasShown
<1>6. Fits(ask[i])
  BY <1>1, <1>2, <1>4 DEF Changing, Adopting, Fits
<1>7. /\ To(ask[i], "keep").shown = ask[i].shown /\ To(ask[i], "keep").env = ask[i].env
      /\ To(ask[i], "keep").phrase = ask[i].phrase
  BY <1>2, AnotherRequest
<1>8. /\ ask'[i] = To(ask[i], "keep") /\ \A j \in Installs \ {i} : ask'[j] = ask[j]
  BY <1>4 DEF AsksTyped
<1>9. QED
  BY <1>1, <1>2, <1>4, <1>5, <1>6, <1>7, <1>8 DEF Ask

\* Every step, as far as what was shown goes.
LEMMA ShowingSteps ==
    ASSUME AsksTyped, AccountTyped, InstallsTyped, [Next]_vars
    PROVE  \/ \E i \in Installs : SetPassphrase(i)
           \/ /\ account'.env = account.env /\ account'.filings = account.filings
              /\ \/ ask' = ask
                 \/ \E i \in Installs : \/ ShownRightly(i)
                                        \/ (Changed(i) \/ Adopted(i)) /\ ~ShownRightly(i)
<1> DEFINE Same == account'.env = account.env /\ account'.filings = account.filings
<1>1. ASSUME NEW i \in Installs,
             \/ Unlock(i) \/ CreateRecoveryCode(i) \/ Disconnect(i) \/ Lock(i)
             \/ MoveServer(i) \/ Restart(i) \/ Lose(i) \/ LoseRefresh(i)
             \/ \E phrase \in Phrases : \/ Change(i, phrase) \/ Adopt(i, phrase)
                                       \/ Pair(i, phrase) \/ Recover(i, phrase)
             \/ \E phrase \in Phrases, code \in 1..spent.codes :
                  RecoverWithCode(i, code, phrase)
             \/ \E p \in DOMAIN pairings : Approve(i, p)
             \/ \E d \in Made : Retire(i, d)
      PROVE  Same /\ (ask' = ask \/ ShownRightly(i))
  <2>1. Same
    BY <1>1 DEF Unlock, CreateRecoveryCode, Disconnect, Lock, MoveServer, Restart, Lose,
       LoseRefresh, Change, Adopt, Pair, Recover, RecoverWithCode, Approve, Retire, server
  <2>2. CASE Lock(i) \/ MoveServer(i)
    BY <2>1, <2>2 DEF Lock, MoveServer
  <2>3. CASE Restart(i) \/ Lose(i) \/ LoseRefresh(i)
    BY <2>1, <2>3, ShownInContinuing
  <2>4. CASE ~(Lock(i) \/ MoveServer(i) \/ Restart(i) \/ Lose(i) \/ LoseRefresh(i))
    BY <1>1, <2>1, <2>4, ShownInStarts
  <2>5. QED
    BY <2>2, <2>3, <2>4
<1>2. ASSUME NEW i \in Installs,
             \/ LoginFind(i) \/ LoginIssue(i) \/ RequireAuth(i) \/ RefreshToken(i)
             \/ FileVerifier(i) \/ SeedEnvelope(i)
             \/ SetRecoveryCode(i) \/ LookupPairing(i) \/ ApprovePairing(i)
             \/ RevokeDevice(i) \/ BeginPairing(i) \/ ClaimFind(i) \/ RecoverFind(i)
             \/ MakeDevice(i)
      PROVE  Same /\ ShownRightly(i)
  <2>1. Same
    BY <1>2 DEF LoginFind, LoginIssue, RequireAuth, RefreshToken, FileVerifier, SeedEnvelope,
       SetRecoveryCode, CodeSet, LookupPairing, ApprovePairing, RevokeDevice, BeginPairing,
       ClaimFind, RecoverFind, MakeDevice, server, OwnKeys, AccountTyped, Account
  <2>2. QED
    BY <1>2, <2>1, ShownInRoutes
<1>3. ASSUME NEW i \in Installs,
             \/ LoggedIn(i) \/ Proceed(i) \/ CancelPairing(i) \/ Opened(i) \/ SetsNewPhrase(i)
             \/ Take(i) \/ Keep(i) \/ SealSeed(i) \/ Leave(i)
      PROVE  Same /\ ShownRightly(i)
  <2>1. Same
    BY <1>3 DEF LoggedIn, Proceed, CancelPairing, Opened, SetsNewPhrase, Take, Keep, SealSeed,
       Leave, server
  <2>2. QED
    BY <1>3, <2>1, ShownInContinuing
<1>4. ASSUME NEW i \in Installs, Changed(i) \/ Adopted(i) PROVE Same
  BY <1>4 DEF Changed, Adopted, server
<1>5. ASSUME (\E p \in DOMAIN pairings : Expire(p)) \/ Disable \/ Enable \/ UNCHANGED vars
      PROVE  Same /\ ask' = ask
  BY <1>5 DEF Expire, Disable, Enable, vars, server, AccountTyped, Account
<1>6. QED
  BY Steps, <1>1, <1>2, <1>3, <1>4, <1>5

LEMMA PassphraseSet ==
    ASSUME AsksTyped, AccountTyped, NEW i \in Installs, SetPassphrase(i)
    PROVE  /\ UNCHANGED <<data, session, told>>
           /\ \/ /\ account' = account /\ ShownRightly(i)
              \/ /\ account'.env = ask[i].env /\ account'.filings = account.filings + 1
                 /\ ask'[i].env = ask[i].env /\ ask'[i].shown = account'.filings
                 /\ ask'[i].step = "passphrase"
                 /\ \A j \in Installs \ {i} : ask'[j] = ask[j]
<1>1. ask[i] # Idle /\ ask[i].step = "passphrase"
  BY Blanks DEF SetPassphrase, Handled
<1>2. ask[i] \in Ask /\ ask[i].phrase \in Phrases /\ ask[i].env \in Envelope
  BY <1>1 DEF AsksTyped, Carries, Opening, Changing, Adopting, Approving, Acting, Pairs,
     Recovering, Redeeming, Fits
<1>3. CASE account.state = "active"
  <2> DEFINE x == [ask[i] EXCEPT !.at = "done", !.shown = account.filings + 1]
  <2>1. /\ account' = Moved(ask[i]) /\ ask' = [ask EXCEPT ![i] = x]
        /\ UNCHANGED <<data, session, told>>
    BY <1>3 DEF SetPassphrase, Send, OwnKeys
  <2>2. x.env = ask[i].env /\ x.shown = account.filings + 1 /\ x.step = ask[i].step
    BY <1>2 DEF Ask
  <2> HIDE DEF x
  <2>3. ask'[i] = x /\ \A j \in Installs \ {i} : ask'[j] = ask[j]
    BY <2>1 DEF AsksTyped
  <2>4. account'.env = ask[i].env /\ account'.filings = account.filings + 1
    BY <1>2, <2>1, MovedFields
  <2>5. QED
    BY <1>1, <2>1, <2>2, <2>3, <2>4
<1>4. CASE account.state # "active"
  <2>1. Fail(i) /\ account' = account /\ UNCHANGED <<data, session, told>>
    BY <1>4 DEF SetPassphrase, OwnKeys
  <2>2. QED
    BY <1>1, <2>1, ShownByFailing
<1>5. QED
  BY <1>3, <1>4

\* What was shown stays what it was shown as, or is outdated.
LEMMA ShownStays ==
    ASSUME ShownIsSo, AsksTyped, AccountTyped, InstallsTyped, [Next]_vars
    PROVE  ShownIsSo'
<1> DEFINE Right(a) == /\ a.shown <= account.filings
                       /\ WasShown(a) /\ a.shown = account.filings => a.env = account.env
<1>0. account.filings \in Nat /\ account.filings > 0
  BY Envelopes DEF AccountTyped
<1>1. \A j \in Installs : ask[j].shown \in Nat /\ Right(ask[j])
  BY Blanks DEF AsksTyped, Ask, ShownIsSo
<1>2. ASSUME account'.env = account.env, account'.filings = account.filings,
             \A j \in Installs : Right(ask'[j])
      PROVE  ShownIsSo'
  BY <1>2 DEF ShownIsSo, WasShown
<1>3. ASSUME account'.env = account.env, account'.filings = account.filings, ask' = ask
      PROVE  ShownIsSo'
  BY <1>1, <1>2, <1>3
<1>4. ASSUME account'.env = account.env, account'.filings = account.filings,
             NEW i \in Installs, ShownRightly(i)
      PROVE  ShownIsSo'
  <2>1. Right(ask'[i])
    BY <1>0, <1>1, <1>4 DEF ShownRightly, ShownNothing, ShownAsBefore, ShownNow
  <2>2. \A j \in Installs \ {i} : ask'[j] = ask[j]
    BY <1>4 DEF ShownRightly
  <2>3. \A j \in Installs : Right(ask'[j])
    BY <1>1, <2>1, <2>2
  <2>4. QED
    BY <1>2, <1>4, <2>3
<1>5. ASSUME account'.env = account.env, account'.filings = account.filings,
             NEW i \in Installs, Changed(i) \/ Adopted(i), ~ShownRightly(i)
      PROVE  ShownIsSo'
  <2>1. /\ WasShown(ask[i]) /\ \A j \in Installs \ {i} : ask'[j] = ask[j]
        /\ ask'[i].shown = ask[i].shown /\ ask'[i].env = ask[i].env
    BY <1>5, ToBeKept
  <2>2. Right(ask'[i])
    BY <1>1, <2>1
  <2>3. \A j \in Installs : Right(ask'[j])
    BY <1>1, <2>1, <2>2
  <2>4. QED
    BY <1>2, <1>5, <2>3
<1>6. ASSUME NEW i \in Installs, SetPassphrase(i) PROVE ShownIsSo'
  <2>1. CASE account' = account /\ ShownRightly(i)
    BY <1>4, <2>1
  <2>2. CASE /\ account'.env = ask[i].env /\ account'.filings = account.filings + 1
             /\ ask'[i].env = ask[i].env /\ ask'[i].shown = account'.filings
             /\ \A j \in Installs \ {i} : ask'[j] = ask[j]
    <3>1. \A j \in Installs \ {i} : ask'[j].shown <= account'.filings
                                    /\ ask'[j].shown # account'.filings
      BY <1>0, <1>1, <2>2
    <3>2. ask'[i].shown <= account'.filings /\ ask'[i].env = account'.env
      BY <1>0, <2>2
    <3>3. QED
      BY <3>1, <3>2 DEF ShownIsSo
  <2>3. QED
    BY <1>6, <2>1, <2>2, PassphraseSet
<1>7. QED
  BY <1>3, <1>4, <1>5, <1>6, ShowingSteps

\* What a session holds is what it saw, or is behind it.
LEMMA SeenStays ==
    ASSUME SeenIsSo, ShownIsSo, AsksTyped, AccountTyped, InstallsTyped, DevicesTyped, [Next]_vars
    PROVE  SeenIsSo'
<1> DEFINE Right(s) == s # None /\ s.open =>
                         /\ s.seen <= account.filings
                         /\ ~s.stale /\ s.seen = account.filings => s.conn.env = account.env
<1>0. account.filings \in Nat /\ account.filings > 0
  BY Envelopes DEF AccountTyped
<1>1. \A j \in Installs : Right(session[j])
  BY DEF SeenIsSo, IsOpen
<1>2. ASSUME account'.env = account.env, account'.filings = account.filings,
             \A j \in Installs : Right(session'[j])
      PROVE  SeenIsSo'
  BY <1>2 DEF SeenIsSo, IsOpen
<1>3. ASSUME NEW i \in Installs, SetPassphrase(i) PROVE SeenIsSo'
  <2>1. UNCHANGED session
    BY <1>3, PassphraseSet
  <2>2. CASE account' = account
    BY <1>1, <1>2, <2>1, <2>2
  <2>3. CASE account'.filings = account.filings + 1
    <3>1. \A j \in Installs : IsOpen(j) =>
            session[j].seen <= account.filings /\ session[j].seen \in Nat
      BY Mines DEF SeenIsSo, IsOpen, Session
    <3>2. \A j \in Installs : IsOpen(j) => session[j].seen <= account'.filings
                                          /\ session[j].seen # account'.filings
      BY <1>0, <2>3, <3>1
    <3>3. QED
      BY <2>1, <3>2 DEF SeenIsSo, IsOpen
  <2>4. QED
    BY <1>3, <2>2, <2>3, PassphraseSet
<1>4. ASSUME account'.env = account.env, account'.filings = account.filings PROVE SeenIsSo'
  <2>1. ASSUME NEW i \in Installs, Right(session'[i]),
               \A j \in Installs \ {i} : session'[j] = session[j]
        PROVE  SeenIsSo'
    BY <1>1, <1>2, <1>4, <2>1
  <2>2. ASSUME NEW i \in Installs, Disconnect(i) \/ Leave(i) PROVE SeenIsSo'
    <3>1. session' = [session EXCEPT ![i] = None] \/ session' = session
      BY <2>2 DEF Disconnect, Leave, Released
    <3>2. QED
      BY <1>1, <1>2, <1>4, <3>1 DEF InstallsTyped
  <2>3. ASSUME NEW i \in Installs, MoveServer(i) \/ Restart(i) PROVE SeenIsSo'
    <3>1. session' = [session EXCEPT ![i] = FromFile(i)]
      BY <2>3 DEF MoveServer, Restart
    <3>2. Right(FromFile(i))
      BY FromFiles
    <3>3. QED
      BY <2>1, <3>1, <3>2 DEF InstallsTyped
  <2>4. ASSUME NEW i \in Installs, Lock(i) PROVE SeenIsSo'
    <3> DEFINE new == [session[i] EXCEPT !.open = FALSE, !.seen = 0]
    <3>1. session' = [session EXCEPT ![i] = new] /\ session[i] \in Session
      BY <2>4, Mines DEF Lock, IsOpen
    <3>2. ~new.open
      BY <3>1 DEF Session
    <3> HIDE DEF new
    <3>3. QED
      BY <2>1, <3>1, <3>2 DEF InstallsTyped
  <2>5. ASSUME NEW i \in Installs, Opened(i) PROVE SeenIsSo'
    <3>1. /\ session'[i].conn = session[i].conn /\ session'[i].seen = ask[i].shown
          /\ session'[i].stale <=> ask[i].env # session[i].conn.env
          /\ \A j \in Installs \ {i} : session'[j] = session[j]
      BY <2>5, Unlocked
    <3>2. WasShown(ask[i])
      BY <2>5 DEF Opened, AfterRepair, WasShown
    <3>3. Right(session'[i])
      BY <3>1, <3>2 DEF ShownIsSo
    <3>4. QED
      BY <2>1, <3>1, <3>3
  <2>6. ASSUME NEW i \in Installs, Take(i) PROVE SeenIsSo'
    <3> DEFINE conn == [device |-> ask[i].device, env |-> ask[i].env]
               new == [conn |-> conn, open |-> TRUE, stale |-> FALSE, seen |-> ask[i].shown]
    <3>1. conn.env = ask[i].env /\ new.conn = conn /\ new.seen = ask[i].shown
      BY <2>6, Taken
    <3>2. session' = [session EXCEPT ![i] = new]
      BY <2>6 DEF Take
    <3> HIDE DEF conn, new
    <3>3. WasShown(ask[i]) \/ ask[i].shown = 0
      <4>1. CASE ask[i].kind = "pair"
        <5>1. ask[i] # Idle
          BY <4>1, Blanks
        <5>2. Pairs(ask[i], Made, DOMAIN pairings)
          BY <4>1, <5>1 DEF AsksTyped, Carries, Opening, Changing, Adopting, Approving, Acting,
             Recovering, Redeeming
        <5>3. QED
          BY <5>2 DEF Pairs
      <4>2. CASE ask[i].kind # "pair"
        BY <2>6, <4>2 DEF Take, Done, AfterRepair, WasShown
      <4>3. QED
        BY <4>1, <4>2
    <3>4. /\ ask[i].shown <= account.filings
          /\ ask[i].shown = account.filings => ask[i].env = account.env
      BY <1>0, <3>3 DEF ShownIsSo
    <3>5. Right(new)
      BY <3>1, <3>4
    <3>6. QED
      BY <2>1, <3>2, <3>5 DEF InstallsTyped
  <2>7. ASSUME NEW i \in Installs, Changed(i) \/ Adopted(i) PROVE SeenIsSo'
    <3>1. CASE ~Holds(i, ask[i].env, ask[i].shown)
      <4>1. UNCHANGED session
        BY <2>7, <3>1 DEF Changed, Adopted
      <4>2. QED
        BY <1>1, <1>2, <1>4, <4>1
    <3>2. CASE Holds(i, ask[i].env, ask[i].shown)
      <4>1. /\ ask[i] # Idle /\ ask[i].at = "done" /\ ask[i].kind \in {"change", "adopt"}
        BY <2>7, Blanks DEF Changed, Adopted, Done
      <4>2. WasShown(ask[i])
        BY <4>1 DEF WasShown
      <4>3. ask[i].env \in Envelope /\ ask[i].shown \in Nat /\ session[i] # None
        BY <4>1 DEF AsksTyped, Ask, Carries, Opening, Changing, Adopting, Approving, Acting,
           Pairs, Recovering, Redeeming, Fits, Bootstraps
      <4>4. /\ session'[i].conn.env = ask[i].env /\ session'[i].seen = ask[i].shown
            /\ \A j \in Installs \ {i} : session'[j] = session[j]
        BY <3>2, <4>3, HeldAnew
      <4>5. Right(session'[i])
        BY <4>2, <4>4 DEF ShownIsSo
      <4>6. QED
        BY <2>1, <4>4, <4>5
    <3>3. QED
      BY <3>1, <3>2
  <2>8. CASE UNCHANGED session
    BY <1>1, <1>2, <1>4, <2>8
  <2>9. ASSUME NEW i \in Installs, Keep(i) PROVE UNCHANGED session
    BY <2>9 DEF Keep
  <2>10. QED
    BY HoldingSteps, <2>2, <2>3, <2>4, <2>5, <2>6, <2>7, <2>8, <2>9
<1>5. QED
  BY <1>3, <1>4, ShowingSteps

\* What is to be kept is what was typed: nothing takes the session away under it.
LEMMA TypedStays ==
    ASSUME ~MovesMidway, KeptIsTyped, ShownIsSo, AsksTyped, AccountTyped, InstallsTyped,
           DevicesTyped, [Next]_vars
    PROVE  KeptIsTyped'
<1> DEFINE Right(a, s) == a.step = "keep" => s # None /\ s.conn.env.phrase = a.phrase
<1>0. \A j \in Installs : Right(ask[j], session[j])
  BY DEF KeptIsTyped
<1>1. Idle.step # "keep"
  BY Blanks
<1>2. ASSUME \A j \in Installs : Right(ask'[j], session'[j]) PROVE KeptIsTyped'
  BY <1>2 DEF KeptIsTyped
<1>3. ASSUME NEW i \in Installs,
             \A j \in Installs \ {i} : ask'[j] = ask[j] /\ session'[j] = session[j],
             Right(ask'[i], session'[i])
      PROVE  KeptIsTyped'
  BY <1>0, <1>2, <1>3
<1>4. ASSUME NEW i \in Installs, Changed(i) \/ Adopted(i), ~ShownRightly(i) PROVE KeptIsTyped'
  <2>1. /\ Fits(ask[i]) /\ ask[i].shown \in Nat /\ session[i] # None
        /\ Holds(i, ask[i].env, ask[i].shown)
        /\ \A j \in Installs \ {i} : ask'[j] = ask[j]
        /\ ask'[i].phrase = ask[i].phrase
    BY <1>4, ToBeKept
  <2>2. /\ session'[i] # None /\ session'[i].conn.env = ask[i].env
        /\ \A j \in Installs \ {i} : session'[j] = session[j]
    BY <2>1, HeldAnew DEF Fits
  <2>3. Right(ask'[i], session'[i])
    BY <2>1, <2>2 DEF Fits
  <2>4. QED
    BY <1>3, <2>1, <2>2, <2>3
<1>5. ASSUME NEW i \in Installs,
             \/ Disconnect(i) \/ Lock(i) \/ MoveServer(i) \/ Restart(i)
             \/ Opened(i) \/ Take(i) \/ Keep(i) \/ Leave(i)
      PROVE  KeptIsTyped'
  <2>1. \A j \in Installs \ {i} : ask'[j] = ask[j] /\ session'[j] = session[j]
    BY <1>5 DEF Disconnect, Released, Lock, MoveServer, Restart, Opened, Take, Keep, Leave, End,
       Send, AsksTyped, InstallsTyped
  <2>2. ask'[i].step # "keep"
    <3>1. CASE Disconnect(i)
      <4> DEFINE x == To([Mine(i) EXCEPT !.kind = "leave", !.target = Mine(i).device], "revoke")
      <4>1. x.step = "revoke"
        BY DEF Mine, To, Blank
      <4>2. ask' = [ask EXCEPT ![i] = x] \/ ask' = [ask EXCEPT ![i] = Idle]
        BY <3>1 DEF Disconnect, Send, Free, AsksTyped
      <4> HIDE DEF x
      <4>3. QED
        BY <1>1, <4>1, <4>2 DEF AsksTyped
    <3>2. CASE Lock(i) \/ MoveServer(i)
      BY <1>1, <3>2 DEF Lock, MoveServer, Free
    <3>3. CASE Restart(i) \/ Opened(i) \/ Take(i) \/ Keep(i) \/ Leave(i)
      BY <1>1, <3>3 DEF Restart, Opened, Take, Keep, Leave, End, Send, AsksTyped
    <3>4. QED
      BY <1>5, <3>1, <3>2, <3>3
  <2>3. QED
    BY <1>3, <2>1, <2>2
<1>6. ASSUME UNCHANGED session, NEW i \in Installs, ShownRightly(i) PROVE KeptIsTyped'
  <2>1. \A j \in Installs \ {i} : ask'[j] = ask[j]
    BY <1>6 DEF ShownRightly
  <2>2. ask'[i].step # "keep"
    BY <1>6 DEF ShownRightly, ShownNothing, ShownAsBefore, ShownNow
  <2>3. QED
    BY <1>3, <1>6, <2>1, <2>2
<1>7. ASSUME NEW i \in Installs, SetPassphrase(i) PROVE KeptIsTyped'
  <2>1. UNCHANGED session
    BY <1>7, PassphraseSet
  <2>2. CASE ShownRightly(i)
    BY <1>6, <2>1, <2>2
  <2>3. CASE ask'[i].step = "passphrase" /\ \A j \in Installs \ {i} : ask'[j] = ask[j]
    BY <1>3, <2>1, <2>3
  <2>4. QED
    BY <1>7, <2>2, <2>3, PassphraseSet
<1>8. ASSUME NEW i \in Installs, Changed(i) \/ Adopted(i), ShownRightly(i) PROVE KeptIsTyped'
  <2>1. \A j \in Installs \ {i} : ask'[j] = ask[j] /\ session'[j] = session[j]
    BY <1>8 DEF ShownRightly, Changed, Adopted, Holds, InstallsTyped
  <2>2. ask'[i].step # "keep"
    BY <1>8 DEF ShownRightly, ShownNothing, ShownAsBefore, ShownNow
  <2>3. QED
    BY <1>3, <2>1, <2>2
<1>9. CASE UNCHANGED session
  <2>1. ASSUME ask' = ask PROVE KeptIsTyped'
    BY <1>0, <1>2, <1>9, <2>1
  <2>2. QED
    BY <1>4, <1>6, <1>7, <1>9, <2>1, ShowingSteps
<1>10. QED
  BY <1>4, <1>5, <1>8, <1>9, HoldingSteps

\* Who was told a phrase has it in the file.
LEMMA ToldStays ==
    ASSUME ToldIsKept, KeptIsTyped, AsksTyped, InstallsTyped, DevicesTyped, [Next]_vars
    PROVE  ToldIsKept'
<1> DEFINE Right(t, d) == t # None => d # None /\ d.env.phrase = t
<1>0. \A j \in Installs : Right(told[j], data[j])
  BY DEF ToldIsKept
<1>1. ASSUME NEW i \in Installs, Right(told'[i], data'[i]),
             \A j \in Installs \ {i} : told'[j] = told[j] /\ data'[j] = data[j]
      PROVE  ToldIsKept'
  BY <1>0, <1>1 DEF ToldIsKept
<1>2. ASSUME UNCHANGED <<told, data>> PROVE ToldIsKept'
  BY <1>2 DEF ToldIsKept
<1>3. ASSUME NEW i \in Installs, Disconnect(i) \/ Leave(i) PROVE ToldIsKept'
  <2>1. \/ UNCHANGED <<told, data>>
        \/ told' = [told EXCEPT ![i] = None] /\ data' = [data EXCEPT ![i] = None]
    BY <1>3 DEF Disconnect, Leave, Released
  <2>2. QED
    BY <1>1, <1>2, <2>1 DEF InstallsTyped
<1>4. ASSUME NEW i \in Installs, Take(i) PROVE ToldIsKept'
  <2> DEFINE conn == [device |-> ask[i].device, env |-> ask[i].env]
  <2>1. conn \in Connection /\ conn.env = ask[i].env /\ Fits(ask[i])
    BY <1>4, Taken
  <2>2. data' = [data EXCEPT ![i] = conn] /\ told' = [told EXCEPT ![i] = ask[i].phrase]
    BY <1>4 DEF Take
  <2> HIDE DEF conn
  <2>3. conn # None
    BY <2>1, NoneIsApart
  <2>4. QED
    BY <1>1, <2>1, <2>2, <2>3 DEF InstallsTyped, Fits
<1>5. ASSUME NEW i \in Installs, Keep(i) PROVE ToldIsKept'
  <2>1. session[i] # None /\ session[i].conn \in Connection
    BY <1>5, Keeping
  <2>2. session[i].conn.env.phrase = ask[i].phrase
    BY <1>5 DEF Keep, KeptIsTyped
  <2>3. /\ data' = [data EXCEPT ![i] = session[i].conn]
        /\ told' = [told EXCEPT ![i] = ask[i].phrase]
    BY <1>5 DEF Keep
  <2>4. session[i].conn # None
    BY <2>1, NoneIsApart
  <2>5. QED
    BY <1>1, <2>2, <2>3, <2>4 DEF InstallsTyped
<1>6. ASSUME NEW i \in Installs,
             \/ Lock(i) \/ MoveServer(i) \/ Restart(i) \/ Opened(i) \/ Changed(i) \/ Adopted(i)
      PROVE  UNCHANGED <<told, data>>
  BY <1>6 DEF Lock, MoveServer, Restart, Opened, Changed, Adopted
<1>7. QED
  BY HoldingSteps, <1>2, <1>3, <1>4, <1>5, <1>6

------------------------------------------------------------------------------
(* The theorems.                                                            *)

IInv ==
    /\ AccountTyped /\ DevicesTyped /\ PairingsTyped /\ SpentTyped /\ InstallsTyped /\ AsksTyped
    /\ RowsLeft /\ PairingsLeft
    /\ ShownIsSo /\ SeenIsSo

LEMMA Initially == ASSUME Init PROVE IInv /\ KeptIsTyped /\ ToldIsKept
<1>1. PICK i \in Installs, phrase \in Phrases : LET env == [phrase |-> phrase, nonce |-> 1] IN
        /\ account = [state |-> "active", env |-> env, verifier |-> phrase,
                      code |-> 0, filings |-> 1]
        /\ devices = [d \in {1} |-> [revoked |-> FALSE, refresh |-> TRUE]]
        /\ pairings = [p \in {} |-> None]
        /\ data = [j \in Installs |-> IF j = i THEN [device |-> 1, env |-> env] ELSE None]
        /\ session = [j \in Installs |-> IF j = i
                        THEN [conn |-> data[i], open |-> TRUE, stale |-> FALSE, seen |-> 1]
                        ELSE None]
        /\ client = [j \in Installs |-> IF j = i THEN "held" ELSE "none"]
        /\ ask = [j \in Installs |-> Idle]
        /\ told = [j \in Installs |-> IF j = i THEN phrase ELSE None]
        /\ spent = [nonces |-> 1, codes |-> 0, pairings |-> 0, turns |-> 0]
  BY DEF Init
<1> DEFINE env == [phrase |-> phrase, nonce |-> 1]
           conn == [device |-> 1, env |-> env]
           held == [conn |-> conn, open |-> TRUE, stale |-> FALSE, seen |-> 1]
<1>2. env \in Envelope /\ env.phrase = phrase
  BY Bounds DEF Envelope
<1>3. /\ account.state = "active" /\ account.env = env /\ account.verifier = phrase
      /\ account.code = 0 /\ account.filings = 1
      /\ account = [state |-> "active", env |-> env, verifier |-> phrase, code |-> 0, filings |-> 1]
  BY <1>1
<1>4. /\ data = [j \in Installs |-> IF j = i THEN conn ELSE None]
      /\ data[i] = conn
  BY <1>1
<1>5. session = [j \in Installs |-> IF j = i THEN held ELSE None]
  BY <1>1, <1>4
<1> HIDE DEF env
<1>6. conn \in Connection /\ conn.env = env
  BY <1>2, Bounds DEF Connection
<1> HIDE DEF conn
<1>7. held.conn = conn /\ held.seen = 1
  OBVIOUS
<1>8. held \in Session
  <2>1. 1 \in Nat /\ TRUE \in BOOLEAN /\ FALSE \in BOOLEAN
    OBVIOUS
  <2>2. QED
    BY <1>6, <2>1, Zenon DEF Session
<1> HIDE DEF held
<1>9. conn # None /\ held # None
  BY <1>6, <1>8, NoneIsApart
<1>10. AccountTyped
  BY <1>2, <1>3, Bounds DEF AccountTyped, Account
<1>11. DevicesTyped
  <2>1. DOMAIN devices = {1} /\ devices[1] = [revoked |-> FALSE, refresh |-> TRUE]
    BY <1>1
  <2>2. Cardinality({1}) = 1
    BY FS_Singleton
  <2>3. 1 \in 0..MaxRows /\ {1} = 1..1
    BY Bounds
  <2>4. QED
    BY <2>1, <2>2, <2>3, NewRows DEF DevicesTyped, Made
<1>12. PairingsTyped
  <2>1. DOMAIN pairings = {} /\ Cardinality({}) = 0 /\ {} = 1..0
    BY <1>1, FS_EmptySet
  <2>2. QED
    BY <2>1, Bounds DEF PairingsTyped
<1>13. SpentTyped
  BY <1>1, Bounds DEF SpentTyped
<1>14. InstallsTyped
  BY <1>1, <1>4, <1>5, <1>6, <1>8, <1>9 DEF InstallsTyped
<1>15. \A j \in Installs : ask[j] = Idle
  BY <1>1
<1>16. AsksTyped
  BY <1>1, <1>15 DEF AsksTyped
<1>17. Joining = {} /\ Beginning = {} /\ Unmade = {}
  BY <1>15, Blanks DEF Joining, Beginning, Unmade, Bootstraps
<1>18. RowsLeft
  <2>1. Cardinality(Made) \in Nat /\ Cardinality(Made) <= MaxRows
    BY <1>11, Bounds DEF DevicesTyped
  <2>2. QED
    BY <1>17, <2>1, FS_EmptySet DEF RowsLeft
<1>19. PairingsLeft
  <2>1. Cardinality(DOMAIN pairings) = 0 /\ spent.pairings = 0
    BY <1>1, FS_EmptySet
  <2>2. QED
    BY <1>17, <2>1, FS_EmptySet DEF PairingsLeft
<1>20. ShownIsSo
  BY <1>3, <1>15, Blanks DEF ShownIsSo, WasShown
<1>21. SeenIsSo
  BY <1>3, <1>5, <1>6, <1>7 DEF SeenIsSo, IsOpen
<1>22. KeptIsTyped
  BY <1>15, Blanks DEF KeptIsTyped
<1>23. ToldIsKept
  BY <1>1, <1>2, <1>4, <1>6, <1>9 DEF ToldIsKept
<1>24. QED
  BY <1>10, <1>11, <1>12, <1>13, <1>14, <1>16, <1>18, <1>19, <1>20, <1>21, <1>22, <1>23 DEF IInv

LEMMA Inductive == ASSUME IInv, [Next]_vars PROVE IInv'
<1>1. AccountTyped' /\ DevicesTyped' /\ PairingsTyped' /\ SpentTyped'
  BY AccountTypes, DeviceTypes, PairingTypes, SpentTypes DEF IInv
<1>2. InstallsTyped' /\ AsksTyped'
  BY InstallTypes, AskTypes DEF IInv
<1>3. RowsLeft' /\ PairingsLeft'
  BY RoomStays DEF IInv
<1>4. ShownIsSo' /\ SeenIsSo'
  BY ShownStays, SeenStays DEF IInv
<1>5. QED
  BY <1>1, <1>2, <1>3, <1>4 DEF IInv

LEMMA InvariantHolds == Spec => []IInv
<1>1. Init => IInv
  BY Initially
<1>2. IInv /\ [Next]_vars => IInv'
  BY Inductive
<1>3. QED
  BY <1>1, <1>2, PTL DEF Spec

\* Every row, envelope and operation of the account is of its type in every
\* state: an operation is at one of the requests its kind sends, and the rows
\* of `devices` and of `device_pairings` stay within what was let in.
THEOREM TypeCorrect == Spec => []TypeOK
<1>1. IInv => TypeOK
  <2> SUFFICES ASSUME IInv PROVE TypeOK
    OBVIOUS
  <2>1. account \in Account
    BY DEF IInv, AccountTyped
  <2>2. /\ Made = 1..Cardinality(Made) /\ Made \subseteq 1..MaxRows
        /\ \A d \in Made : devices[d] \in Row
    BY Bounds DEF IInv, DevicesTyped
  <2>3. /\ DOMAIN pairings \subseteq 1..MaxPairings
        /\ \A p \in DOMAIN pairings : pairings[p] \in Pairing
    BY Bounds DEF IInv, PairingsTyped
  <2>4. \A i \in Installs :
          /\ data[i] \in Connection \cup {None}
          /\ data[i] = None <=> session[i] = None
          /\ session[i] \in Session \cup {None}
          /\ client[i] \in {"none", "held", "spent"}
          /\ told[i] \in Phrases \cup {None}
    BY DEF IInv, InstallsTyped
  <2>5. \A i \in Installs : ask[i] \in Ask \cup {Idle}
    BY DEF IInv, AsksTyped
  <2>6. spent.nonces <= MaxNonces /\ spent.turns <= MaxTurns
    BY Bounds DEF IInv, SpentTyped
  <2>7. QED
    BY <2>1, <2>2, <2>3, <2>4, <2>5, <2>6 DEF TypeOK
<1>2. QED
  BY <1>1, InvariantHolds, PTL

\* A device that is not told it is behind is not, but for a change made after it
\* last saw the account's envelope: the fingerprint of a login, the answer of a
\* change, an adoption or a recovery is of the filing it was read with, whatever
\* else reached the account before the install made anything of it.
THEOREM BehindAlwaysMarked == Spec => []BehindIsMarked
<1>1. IInv => BehindIsMarked
  <2> SUFFICES ASSUME IInv, NEW i \in Installs, IsOpen(i), ~session[i].stale,
                      session[i].conn.env.phrase # account.env.phrase
               PROVE  session[i].seen < account.filings
    BY DEF BehindIsMarked
  <2>1. /\ session[i].seen <= account.filings
        /\ session[i].seen = account.filings => session[i].conn.env = account.env
    BY DEF IInv, SeenIsSo
  <2>2. session[i] # None /\ session[i] \in Session
    BY Mines DEF IInv, IsOpen
  <2>3. session[i].seen \in Nat /\ account.filings \in Nat
    BY <2>2, Envelopes DEF IInv, Session
  <2>4. QED
    BY <2>1, <2>3
<1>2. QED
  BY <1>1, InvariantHolds, PTL

\* The phrase a person was last told is theirs is the one that opens what is in
\* the file, so it opens the device after a restart, as long as nothing changes
\* the server's address under another operation.
THEOREM ToldAlwaysKept == ASSUME ~MovesMidway PROVE Spec => []ToldIsKept
<1> DEFINE All == IInv /\ KeptIsTyped /\ ToldIsKept
<1>1. Init => All
  BY Initially
<1>2. All /\ [Next]_vars => All'
  <2> SUFFICES ASSUME All, [Next]_vars PROVE All'
    OBVIOUS
  <2>1. IInv'
    BY Inductive
  <2>2. KeptIsTyped'
    BY TypedStays DEF IInv
  <2>3. ToldIsKept'
    BY ToldStays DEF IInv
  <2>4. QED
    BY <2>1, <2>2, <2>3
<1>3. All => ToldIsKept
  OBVIOUS
<1> HIDE DEF All
<1>4. QED
  BY <1>1, <1>2, <1>3, PTL DEF Spec

-----------------------------------------------------------------------------
(* The accounts: what the proofs about them rest on.                       *)

\* Who never came to the share, or was made to forget it, has nothing there.
NothingBeforeJoining ==
  \A u \in People \ {Initiator} : member[u] \in {"none", "invited"} => history[u] = <<>>

\* A sign-in under way was begun with the password there is.
SignsInWithIt == \A b \in Browsers : signing[b] # NoSignIn => signing[b].given = password

-----------------------------------------------------------------------------
(* The accounts: the types.                                                *)

\* The console account, its devices and its sign-ins.
ConsoleTyped ==
  /\ password \in 0..MaxPasswords
  /\ sessions \in Seq(ConsoleSession) /\ Len(sessions) <= MaxSessions
  /\ \A i \in DOMAIN sessions : sessions[i].revoked => sessions[i].refresh = 0
  /\ signing \in [Browsers -> SignIn \cup {NoSignIn}]

\* The accounts, the share and the histories.
AccountsTyped ==
  /\ people \in [People -> States]
  /\ share \in {"none", "preparing", "active", "ended", "cancelled"}
  /\ member \in [People -> Memberships]
  /\ history \in [People -> Seq(People \cup {Tombstone})]

\* An account that is not there is nowhere.
Absent == \A p \in People : people[p] \in {"none", "provisioned", "expired"} =>
            member[p] = "none" /\ history[p] = <<>>

LEMMA AccountsTypeParts ==
    AccountsTypeOK <=> ConsoleTyped /\ AccountsTyped /\ Absent /\ turns \in 0..MaxAccountTurns
BY DEF AccountsTypeOK, ConsoleTyped, AccountsTyped, Absent

LEMMA AccountsInitType == AccountsInit => AccountsTypeOK
<1> SUFFICES ASSUME AccountsInit PROVE AccountsTypeOK
  OBVIOUS
<1>1. ConsoleTyped
  BY AccountsBounds DEF AccountsInit, ConsoleTyped
<1>2. AccountsTyped /\ Absent /\ turns \in 0..MaxAccountTurns
  BY AccountsBounds DEF AccountsInit, AccountsTyped, Absent, States, Memberships
<1> QED  BY <1>1, <1>2, AccountsTypeParts

\* A device row that is written keeps the others and their number.
LEMMA SessionWritten ==
    ASSUME NEW s \in Seq(ConsoleSession), NEW i, NEW new \in ConsoleSession
    PROVE  /\ [s EXCEPT ![i] = new] \in Seq(ConsoleSession)
           /\ Len([s EXCEPT ![i] = new]) = Len(s)
           /\ DOMAIN [s EXCEPT ![i] = new] = DOMAIN s
           /\ \A j \in DOMAIN s : [s EXCEPT ![i] = new][j] = IF j = i THEN new ELSE s[j]
<1>1. CASE i \in 1..Len(s)
  BY <1>1, ExceptSeq, LenProperties
<1>2. CASE i \notin 1..Len(s)
  <2>1. DOMAIN s = 1..Len(s) /\ s \in [1..Len(s) -> ConsoleSession]
    BY LenProperties
  <2>2. [s EXCEPT ![i] = new] = s
    BY <1>2, <2>1
  <2> QED  BY <1>2, <2>1, <2>2
<1> QED  BY <1>1, <1>2

\* A token given to a device, and taken from one.
LEMMA RefreshWritten ==
    ASSUME NEW r \in ConsoleSession, NEW p \in 0..MaxPasswords
    PROVE  /\ [r EXCEPT !.refresh = p] \in ConsoleSession
           /\ [r EXCEPT !.refresh = p].refresh = p
           /\ [r EXCEPT !.refresh = p].revoked = r.revoked
BY DEF ConsoleSession

\* What a change of the password leaves of the devices.
LEMMA ClearedSessions ==
    ASSUME sessions \in Seq(ConsoleSession)
    PROVE  /\ Cleared \in Seq(ConsoleSession) /\ Len(Cleared) = Len(sessions)
           /\ DOMAIN Cleared = DOMAIN sessions
           /\ \A i \in DOMAIN Cleared : Cleared[i].refresh = 0
<1>1. Len(sessions) \in Nat /\ DOMAIN sessions = 1..Len(sessions)
  BY LenProperties
<1>2. ASSUME NEW i \in 1..Len(sessions)
      PROVE  /\ [sessions[i] EXCEPT !.refresh = 0] \in ConsoleSession
             /\ [sessions[i] EXCEPT !.refresh = 0].refresh = 0
  BY <1>2, ElementOfSeq, RefreshWritten, AccountsBounds
<1>3. Cleared \in [1..Len(sessions) -> ConsoleSession]
  BY <1>1, <1>2 DEF Cleared
<1>4. Cleared \in Seq(ConsoleSession)
  BY <1>1, <1>3, SeqDef
<1>5. Len(Cleared) \in Nat /\ DOMAIN Cleared = 1..Len(Cleared)
  BY <1>4, LenProperties
<1>6. DOMAIN Cleared = 1..Len(sessions)
  BY <1>3
<1>7. Len(Cleared) = Len(sessions)
  <2> DEFINE m == Len(Cleared)
             n == Len(sessions)
  <2>1. m \in Nat /\ n \in Nat /\ 1..m = 1..n
    BY <1>1, <1>5, <1>6
  <2> HIDE DEF m, n
  <2>2. (m > 0 => m \in 1..n) /\ (n > 0 => n \in 1..m)
    BY <2>1
  <2>3. m = n
    BY <2>1, <2>2
  <2> QED  BY <2>3 DEF m, n
<1>8. \A i \in 1..Len(sessions) : Cleared[i].refresh = 0
  BY <1>1, <1>2 DEF Cleared
<1> QED  BY <1>1, <1>4, <1>6, <1>7, <1>8

LEMMA ConsoleStep == AccountsTypeOK /\ AccountsNext => ConsoleTyped'
<1> SUFFICES ASSUME AccountsTypeOK, AccountsNext PROVE ConsoleTyped'
  OBVIOUS
<1>0. ConsoleTyped
  BY AccountsTypeParts
<1>1. CASE Bootstrap
  BY <1>0, <1>1, AccountsBounds DEF Bootstrap, ConsoleTyped
<1>2. CASE ChangePassword
  <2>1. sessions \in Seq(ConsoleSession)
    BY <1>0 DEF ConsoleTyped
  <2> QED  BY <1>0, <1>2, <2>1, ClearedSessions, AccountsBounds DEF ChangePassword, ConsoleTyped
<1>3. ASSUME NEW b \in Browsers, GivePassword(b) PROVE ConsoleTyped'
  <2>1. [given |-> password, at |-> "known", session |-> 0] \in SignIn
    BY <1>0, <1>3, AccountsBounds DEF GivePassword, ConsoleTyped, SignIn
  <2> QED  BY <1>0, <1>3, <2>1 DEF GivePassword, ConsoleTyped
<1>4. ASSUME NEW b \in Browsers, LookForSession(b) PROVE ConsoleTyped'
  <2>1. PICK i \in IF SignedIn = {} THEN {0} ELSE SignedIn :
          signing' = [signing EXCEPT ![b].at = "looked", ![b].session = i]
    BY <1>4 DEF LookForSession
  <2>2. i \in 0..MaxSessions
    <3>1. Len(sessions) \in Nat /\ DOMAIN sessions = 1..Len(sessions)
          /\ Len(sessions) <= MaxSessions
      BY <1>0, LenProperties DEF ConsoleTyped
    <3> QED  BY <2>1, <3>1, AccountsBounds DEF SignedIn
  <2>3. signing[b] \in SignIn
    BY <1>0, <1>4 DEF LookForSession, ConsoleTyped
  <2>4. [signing[b] EXCEPT !.at = "looked", !.session = i] \in SignIn
    BY <2>2, <2>3 DEF SignIn
  <2>5. signing' \in [Browsers -> SignIn \cup {NoSignIn}]
    BY <1>0, <2>1, <2>4 DEF ConsoleTyped
  <2> QED  BY <1>0, <1>4, <2>5 DEF LookForSession, ConsoleTyped
<1>5. ASSUME NEW b \in Browsers, Register(b) PROVE ConsoleTyped'
  <2>1. /\ sessions \in Seq(ConsoleSession) /\ Len(sessions) \in Nat /\ Len(sessions) <= MaxSessions
        /\ DOMAIN sessions = 1..Len(sessions) /\ signing[b] \in SignIn
    BY <1>0, <1>5, LenProperties DEF Register, ConsoleTyped
  <2>2. signing' \in [Browsers -> SignIn \cup {NoSignIn}]
    <3> DEFINE i == IF signing[b].session = 0 THEN Len(sessions) + 1 ELSE signing[b].session
    <3>1. i \in 0..MaxSessions
      BY <1>5, <2>1, AccountsBounds DEF Register, SignIn
    <3>2. [signing[b] EXCEPT !.at = "registered", !.session = i] \in SignIn
      BY <2>1, <3>1 DEF SignIn
    <3> QED  BY <1>0, <1>5, <3>2 DEF Register, ConsoleTyped
  <2>3. CASE signing[b].session = 0
    <3> DEFINE new == [revoked |-> FALSE, refresh |-> 0]
    <3>1. new \in ConsoleSession /\ new.revoked = FALSE
      BY AccountsBounds DEF ConsoleSession
    <3>2. sessions' = Append(sessions, new) /\ Len(sessions) < MaxSessions
      BY <1>5, <2>3 DEF Register
    <3> HIDE DEF new
    <3>3. /\ sessions' \in Seq(ConsoleSession) /\ Len(sessions') = Len(sessions) + 1
          /\ DOMAIN sessions' = 1..Len(sessions) + 1
          /\ \A i \in 1..Len(sessions) : sessions'[i] = sessions[i]
          /\ sessions'[Len(sessions) + 1] = new
      BY <2>1, <3>1, <3>2, LenProperties
    <3>4. \A i \in DOMAIN sessions' : sessions'[i].revoked => sessions'[i].refresh = 0
      BY <1>0, <2>1, <3>1, <3>3 DEF ConsoleTyped
    <3>5. Len(sessions') <= MaxSessions
      BY <2>1, <3>2, <3>3, AccountsBounds
    <3>6. password' \in 0..MaxPasswords
      BY <1>0, <1>5 DEF Register, ConsoleTyped
    <3> QED  BY <2>2, <3>3, <3>4, <3>5, <3>6 DEF ConsoleTyped
  <2>4. CASE signing[b].session # 0
    BY <1>0, <1>5, <2>2, <2>4 DEF Register, ConsoleTyped
  <2> QED  BY <2>3, <2>4
<1>6. ASSUME NEW b \in Browsers, IssueRefresh(b) PROVE ConsoleTyped'
  <2> DEFINE i == signing[b].session
             new == [sessions[i] EXCEPT !.refresh = signing[b].given]
  <2>1. signing' \in [Browsers -> SignIn \cup {NoSignIn}] /\ password' = password
    BY <1>0, <1>6 DEF IssueRefresh, ConsoleTyped
  <2>2. CASE i \in DOMAIN sessions /\ ~sessions[i].revoked
    <3>1. sessions' = [sessions EXCEPT ![i] = new]
      BY <1>6, <2>2 DEF IssueRefresh
    <3>2. sessions[i] \in ConsoleSession /\ signing[b].given \in 0..MaxPasswords
      BY <1>0, <1>6, <2>2, ElementOfSeq, LenProperties, AccountsBounds
      DEF IssueRefresh, ConsoleTyped, SignIn
    <3>3. new \in ConsoleSession /\ new.revoked = FALSE
      BY <2>2, <3>2, RefreshWritten DEF ConsoleSession
    <3> HIDE DEF new, i
    <3>4. /\ sessions' \in Seq(ConsoleSession) /\ Len(sessions') = Len(sessions)
          /\ DOMAIN sessions' = DOMAIN sessions
          /\ \A j \in DOMAIN sessions : sessions'[j] = IF j = i THEN new ELSE sessions[j]
      BY <1>0, <3>1, <3>3, SessionWritten DEF ConsoleTyped
    <3> QED  BY <1>0, <2>1, <3>3, <3>4 DEF ConsoleTyped
  <2>3. CASE i \in DOMAIN sessions /\ sessions[i].revoked
    BY <1>0, <1>6, <2>1, <2>3 DEF IssueRefresh, ConsoleTyped
  <2>4. CASE i \notin DOMAIN sessions
    <3>1. [sessions EXCEPT ![i].refresh = signing[b].given] = sessions
      <4>1. DOMAIN sessions = 1..Len(sessions) /\ sessions \in [1..Len(sessions) -> ConsoleSession]
        BY <1>0, LenProperties DEF ConsoleTyped
      <4> QED  BY <2>4, <4>1
    <3>2. sessions' = sessions
      BY <1>6, <3>1 DEF IssueRefresh
    <3> QED  BY <1>0, <2>1, <3>2 DEF ConsoleTyped
  <2> QED  BY <2>2, <2>3, <2>4
<1>7. ASSUME NEW i \in DOMAIN sessions, SignOut(i) PROVE ConsoleTyped'
  <2> DEFINE new == [revoked |-> TRUE, refresh |-> 0]
  <2>1. new \in ConsoleSession /\ new.refresh = 0
    BY AccountsBounds DEF ConsoleSession
  <2>2. sessions' = [sessions EXCEPT ![i] = new]
    BY <1>7 DEF SignOut
  <2> HIDE DEF new
  <2>3. /\ sessions' \in Seq(ConsoleSession) /\ Len(sessions') = Len(sessions)
        /\ DOMAIN sessions' = DOMAIN sessions
        /\ \A j \in DOMAIN sessions : sessions'[j] = IF j = i THEN new ELSE sessions[j]
    BY <1>0, <2>1, <2>2, SessionWritten DEF ConsoleTyped
  <2> QED  BY <1>0, <1>7, <2>1, <2>3 DEF SignOut, ConsoleTyped
<1>8. CASE UNCHANGED console
  BY <1>0, <1>8 DEF console, ConsoleTyped
<1> QED
  BY <1>1, <1>2, <1>3, <1>4, <1>5, <1>6, <1>7, <1>8
  DEF  Invite, ExpireInvitation, Reissue, RevokeInvitation, Redeem, SetEnabled, CreateShare,
       CancelShare, ActivateShare, JoinShare, TakeInvitationBack, Write, LeaveShare,
       FinalizeLeave, DeleteAccount, InviteMember, RemoveMember, AccountsNext

\* What a commit leaves is a state and memberships, whoever asked for it.
LEMMA DeparturesAreTyped ==
    ASSUME AccountsTyped, NEW u \in People
    PROVE  /\ Over(u) \in {"none", "preparing", "active", "ended", "cancelled"}
           /\ Departed(u) \in [People -> Memberships]
           /\ \A v \in People : Departed(u)[v] \in {member[v], "finalizing"}
           /\ \A v \in People : Departed(u)[v] # member[v] => member[v] \in {"invited", "joined"}
<1>1. Over(u) \in {"none", "preparing", "active", "ended", "cancelled"}
  BY DEF AccountsTyped, Over
<1> QED  BY <1>1 DEF AccountsTyped, Departed, Going, Memberships

\* The deletion of an account leaves everybody else a history of the same
\* length, with the tombstone where the account was the author.
LEMMA AnonymisedHistories ==
    ASSUME AccountsTyped, NEW p \in People
    PROVE  /\ Anonymised(p) \in [People -> Seq(People \cup {Tombstone})]
           /\ Anonymised(p)[p] = <<>>
           /\ \A u \in People \ {p} :
                /\ DOMAIN Anonymised(p)[u] = DOMAIN history[u]
                /\ \A i \in DOMAIN history[u] : Anonymised(p)[u][i] =
                      IF history[u][i] = p THEN Tombstone ELSE history[u][i]
<1> DEFINE new(u) == [i \in DOMAIN history[u] |->
                        IF history[u][i] = p THEN Tombstone ELSE history[u][i]]
<1>1. ASSUME NEW u \in People PROVE new(u) \in Seq(People \cup {Tombstone})
  <2>1. history[u] \in Seq(People \cup {Tombstone})
    BY DEF AccountsTyped
  <2>2. /\ Len(history[u]) \in Nat /\ DOMAIN history[u] = 1..Len(history[u])
        /\ history[u] \in [1..Len(history[u]) -> People \cup {Tombstone}]
    BY <2>1, LenProperties
  <2>3. new(u) \in [1..Len(history[u]) -> People \cup {Tombstone}]
    BY <2>2
  <2> QED  BY <2>2, <2>3, SeqDef
<1>2. Anonymised(p) = [u \in People |-> IF u = p THEN <<>> ELSE new(u)]
  BY DEF Anonymised
<1> QED  BY <1>1, <1>2, EmptySeq

LEMMA EmptyWhereNothing ==
    ASSUME AccountsTyped, NEW p \in People, NEW u \in People \ {p}, history[u] = <<>>
    PROVE  Anonymised(p)[u] = <<>>
<1> DEFINE h == Anonymised(p)[u]
<1>1. h \in Seq(People \cup {Tombstone}) /\ DOMAIN h = {}
  BY AnonymisedHistories
<1> HIDE DEF h
<1>2. Len(h) \in Nat /\ 1..Len(h) = {}
  BY <1>1, LenProperties
<1>3. Len(h) > 0 => 1 \in 1..Len(h)
  BY <1>2
<1>4. h = <<>>
  BY <1>1, <1>2, <1>3, EmptySeq
<1> QED  BY <1>4 DEF h

LEMMA AccountsStep == AccountsTypeOK /\ AccountsNext => AccountsTyped'
<1> SUFFICES ASSUME AccountsTypeOK, AccountsNext PROVE AccountsTyped'
  OBVIOUS
<1>0. AccountsTyped
  BY AccountsTypeParts
<1> USE DEF AccountsTyped
<1>1. ASSUME NEW p \in People,
             Invite(p) \/ ExpireInvitation(p) \/ Reissue(p) \/ RevokeInvitation(p) \/ Redeem(p)
                \/ \E enabled \in BOOLEAN : SetEnabled(p, enabled)
      PROVE  AccountsTyped'
  BY <1>0, <1>1 DEF Invite, ExpireInvitation, Reissue, RevokeInvitation, Redeem, Redeemed,
      SetEnabled,
     Become, States, replicas
<1>2. ASSUME NEW p \in People,
             CreateShare(p) \/ CancelShare(p) \/ ActivateShare(p) \/ TakeInvitationBack(p)
                \/ \E u \in People : InviteMember(p, u)
      PROVE  AccountsTyped'
  BY <1>0, <1>2 DEF CreateShare, CancelShare, ActivateShare, TakeInvitationBack, InviteMember,
     Commit, Memberships
<1>3. ASSUME NEW u \in People, JoinShare(u) PROVE AccountsTyped'
  BY <1>0, <1>3, InitiatorIsOne DEF JoinShare, Commit, Memberships
<1>4. ASSUME NEW u \in People, Write(u) PROVE AccountsTyped'
  <2>1. ASSUME NEW v \in People
        PROVE  Append(history[v], u) \in Seq(People \cup {Tombstone})
    BY <1>0
  <2> QED  BY <1>0, <1>4, <2>1 DEF Write
<1>5. ASSUME NEW u \in People, LeaveShare(u) \/ \E p \in People : RemoveMember(p, u)
      PROVE  AccountsTyped'
  BY <1>0, <1>5, DeparturesAreTyped DEF LeaveShare, RemoveMember, Commit
<1>6. ASSUME NEW u \in People, FinalizeLeave(u) PROVE AccountsTyped'
  BY <1>0, <1>6, EmptySeq DEF FinalizeLeave, Memberships
<1>7. ASSUME NEW p \in People, DeleteAccount(p) PROVE AccountsTyped'
  <2> DEFINE begins == people[p] # "deleting" /\ Involved(p)
             s == IF begins THEN Over(p) ELSE share
             m == IF begins THEN Departed(p) ELSE member
  <2>1. s \in {"none", "preparing", "active", "ended", "cancelled"} /\ m \in [People -> Memberships]
    BY <1>0, DeparturesAreTyped
  <2>2. /\ share' = s
        /\ \/ member' = m /\ Become(p, "deleting") /\ UNCHANGED history
           \/ member' = [m EXCEPT ![p] = "none"] /\ Become(p, "none") /\ history' = Anonymised(p)
    BY <1>7 DEF DeleteAccount, Commit
  <2> HIDE DEF s, m
  <2>3. CASE member' = m /\ Become(p, "deleting") /\ UNCHANGED history
    BY <1>0, <2>1, <2>2, <2>3 DEF Become, States
  <2>4. CASE member' = [m EXCEPT ![p] = "none"] /\ Become(p, "none") /\ history' = Anonymised(p)
    BY <1>0, <2>1, <2>2, <2>4, AnonymisedHistories DEF Become, States, Memberships
  <2> QED  BY <2>2, <2>3, <2>4
<1>8. CASE UNCHANGED <<people, replicas>>
  BY <1>0, <1>8 DEF replicas
<1> QED
  BY <1>1, <1>2, <1>3, <1>4, <1>5, <1>6, <1>7, <1>8
  DEF AccountsNext, Bootstrap, ChangePassword, GivePassword, LookForSession, Register, IssueRefresh,
      SignOut

\* Whoever is reached by a write is there to be written to, and whoever has the
\* folder came to it.
LEMMA AbsentStep == AccountsTypeOK /\ AccountsNext => Absent'
<1> SUFFICES ASSUME AccountsTypeOK, AccountsNext PROVE Absent'
  OBVIOUS
<1>0. AccountsTyped /\ Absent
  BY AccountsTypeParts
<1> USE DEF AccountsTyped, Absent
<1>1. ASSUME NEW p \in People,
             Invite(p) \/ ExpireInvitation(p) \/ Reissue(p) \/ RevokeInvitation(p) \/ Redeem(p)
                \/ \E enabled \in BOOLEAN : SetEnabled(p, enabled)
      PROVE  Absent'
  BY <1>0, <1>1 DEF Invite, ExpireInvitation, Reissue, Unclaimed, RevokeInvitation, Redeem,
      Redeemed,
     SetEnabled, Become, replicas
<1>2. ASSUME NEW p \in People,
             CreateShare(p) \/ CancelShare(p) \/ ActivateShare(p) \/ TakeInvitationBack(p)
                \/ \E u \in People : InviteMember(p, u)
      PROVE  Absent'
  BY <1>0, <1>2 DEF CreateShare, CancelShare, ActivateShare, TakeInvitationBack, InviteMember,
     HoldsKeys, Commit
<1>3. ASSUME NEW u \in People, JoinShare(u) \/ FinalizeLeave(u) PROVE Absent'
  BY <1>0, <1>3 DEF JoinShare, FinalizeLeave, Commit
<1>4. ASSUME NEW u \in People, Write(u) PROVE Absent'
  BY <1>0, <1>4 DEF Write, Writable
<1>5. ASSUME NEW u \in People, LeaveShare(u) \/ \E p \in People : RemoveMember(p, u)
      PROVE  Absent'
  BY <1>0, <1>5, DeparturesAreTyped, ZenonT(60) DEF LeaveShare, RemoveMember, Commit
<1>6. ASSUME NEW p \in People, DeleteAccount(p) PROVE Absent'
  <2> DEFINE begins == people[p] # "deleting" /\ Involved(p)
             m == IF begins THEN Departed(p) ELSE member
  <2>1. /\ m \in [People -> Memberships]
        /\ \A v \in People : m[v] # member[v] => member[v] \in {"invited", "joined"}
    BY <1>0, DeparturesAreTyped
  <2>2. \/ member' = m /\ Become(p, "deleting") /\ UNCHANGED history
        \/ member' = [m EXCEPT ![p] = "none"] /\ Become(p, "none") /\ history' = Anonymised(p)
    BY <1>6 DEF DeleteAccount, Commit
  <2> HIDE DEF m
  <2>3. CASE member' = m /\ Become(p, "deleting") /\ UNCHANGED history
    BY <1>0, <2>1, <2>3 DEF Become
  <2>4. CASE member' = [m EXCEPT ![p] = "none"] /\ Become(p, "none") /\ history' = Anonymised(p)
    <3>1. ASSUME NEW u \in People \ {p}, history[u] = <<>> PROVE history'[u] = <<>>
      BY <1>0, <2>4, <3>1, EmptyWhereNothing
    <3> QED  BY <1>0, <2>1, <2>4, <3>1, AnonymisedHistories DEF Become
  <2> QED  BY <2>2, <2>3, <2>4
<1>7. CASE UNCHANGED <<people, member, history>>
  BY <1>0, <1>7
<1> QED
  BY <1>1, <1>2, <1>3, <1>4, <1>5, <1>6, <1>7
  DEF AccountsNext, Bootstrap, ChangePassword, GivePassword, LookForSession, Register, IssueRefresh,
      SignOut, replicas

LEMMA TurnsStep == AccountsTypeOK /\ AccountsNext => turns' \in 0..MaxAccountTurns
<1> SUFFICES ASSUME AccountsTypeOK, AccountsNext PROVE turns' \in 0..MaxAccountTurns
  OBVIOUS
<1>1. turns \in 0..MaxAccountTurns /\ (MayTurn \/ UNCHANGED turns => turns' \in 0..MaxAccountTurns)
  BY AccountsBounds DEF AccountsTypeOK, MayTurn
<1>2. MayTurn \/ UNCHANGED turns
  BY DEF Bootstrap, ChangePassword, GivePassword, LookForSession, Register,
       IssueRefresh, SignOut, Invite, ExpireInvitation, Reissue, RevokeInvitation, Redeem,
       SetEnabled, CreateShare, CancelShare, ActivateShare, JoinShare,
       TakeInvitationBack, Write, LeaveShare, FinalizeLeave, DeleteAccount,
       InviteMember, RemoveMember, AccountsNext
<1> QED  BY <1>1, <1>2

\* A step of the program, or none.
LEMMA AccountsTypeStep == AccountsTypeOK /\ [AccountsNext]_accountsVars => AccountsTypeOK'
<1> SUFFICES ASSUME AccountsTypeOK, [AccountsNext]_accountsVars PROVE AccountsTypeOK'
  OBVIOUS
<1>1. CASE AccountsNext
  BY <1>1, ConsoleStep, AccountsStep, AbsentStep, TurnsStep, AccountsTypeParts
  DEF AccountsTypeOK, ConsoleTyped, AccountsTyped, Absent
<1>2. CASE UNCHANGED accountsVars
  BY <1>2 DEF AccountsTypeOK, accountsVars, console, replicas
<1> QED  BY <1>1, <1>2

\* Every variable keeps its type, a device that was signed out has no token,
\* and an account that is not there is in no share and keeps no history.
THEOREM AccountsTypeCorrect == AccountsSpec => []AccountsTypeOK
BY AccountsInitType, AccountsTypeStep, PTL DEF AccountsSpec

-----------------------------------------------------------------------------
(* The console account.                                                    *)

LEMMA SignsInWithItStep ==
    ASSUME ~Overtaken, AccountsTypeOK, SignsInWithIt, [AccountsNext]_accountsVars
    PROVE  SignsInWithIt'
<1> USE DEF SignsInWithIt
<1>0. ConsoleTyped
  BY AccountsTypeParts
<1>1. CASE Bootstrap
  <2>1. \A b \in Browsers : signing[b] = NoSignIn
    BY <1>0, <1>1, AccountsBounds DEF Bootstrap, ConsoleTyped, SignIn
  <2> QED  BY <1>1, <2>1 DEF Bootstrap
<1>2. CASE ChangePassword
  BY <1>2 DEF ChangePassword
<1>3. ASSUME NEW b \in Browsers,
             GivePassword(b) \/ LookForSession(b) \/ Register(b) \/ IssueRefresh(b)
      PROVE  SignsInWithIt'
  <2>1. ASSUME NEW c \in Browsers, signing'[c] # NoSignIn
        PROVE  signing'[c].given = password'
    <3>1. CASE c # b
      BY <1>0, <1>3, <2>1, <3>1
      DEF GivePassword, LookForSession, Register, IssueRefresh, ConsoleTyped
    <3>2. CASE c = b /\ GivePassword(b)
      BY <1>0, <3>2 DEF GivePassword, ConsoleTyped
    <3>3. CASE c = b /\ (LookForSession(b) \/ Register(b))
      <4>1. signing[b] \in SignIn /\ signing[b].given = password /\ password' = password
        BY <1>0, <3>3 DEF LookForSession, Register, ConsoleTyped
      <4>2. \A at, i : [signing[b] EXCEPT !.at = at, !.session = i].given = signing[b].given
        BY <4>1 DEF SignIn
      <4>3. \E at, i : signing'[b] = [signing[b] EXCEPT !.at = at, !.session = i]
        <5>1. CASE LookForSession(b)
          <6>1. PICK i : signing' = [signing EXCEPT ![b].at = "looked", ![b].session = i]
            BY <5>1 DEF LookForSession
          <6>2. signing'[b] = [signing[b] EXCEPT !.at = "looked", !.session = i]
            BY <1>0, <6>1 DEF ConsoleTyped
          <6> QED  BY <6>2
        <5>2. CASE Register(b)
          <6> DEFINE i == IF signing[b].session = 0 THEN Len(sessions) + 1
                          ELSE signing[b].session
          <6>1. signing'[b] = [signing[b] EXCEPT !.at = "registered", !.session = i]
            BY <1>0, <5>2 DEF Register, ConsoleTyped
          <6> QED  BY <6>1
        <5> QED  BY <3>3, <5>1, <5>2
      <4> QED  BY <3>3, <4>1, <4>2, <4>3
    <3>4. CASE c = b /\ IssueRefresh(b)
      BY <1>0, <2>1, <3>4 DEF IssueRefresh, ConsoleTyped
    <3> QED  BY <1>3, <3>1, <3>2, <3>3, <3>4
  <2> QED  BY <2>1
<1>4. CASE UNCHANGED <<password, signing>>
  BY <1>4
<1> QED
  BY <1>1, <1>2, <1>3, <1>4
  DEF  SignOut, Invite, ExpireInvitation, Reissue, RevokeInvitation, Redeem, Redeemed,
       SetEnabled, CreateShare, CancelShare, ActivateShare, JoinShare,
       TakeInvitationBack, Write, LeaveShare, FinalizeLeave, DeleteAccount,
       InviteMember, RemoveMember, AccountsNext, accountsVars, console

LEMMA OldPasswordStep ==
    ASSUME ~Overtaken, AccountsTypeOK, SignsInWithIt, OldPasswordIsOut, [AccountsNext]_accountsVars
    PROVE  OldPasswordIsOut'
<1> USE DEF OldPasswordIsOut
<1>0. /\ ConsoleTyped /\ sessions \in Seq(ConsoleSession)
      /\ Len(sessions) \in Nat /\ DOMAIN sessions = 1..Len(sessions)
  BY AccountsTypeParts, LenProperties DEF ConsoleTyped
<1>1. CASE Bootstrap
  BY <1>1 DEF Bootstrap
<1>2. CASE ChangePassword
  BY <1>0, <1>2, ClearedSessions DEF ChangePassword
<1>3. ASSUME NEW b \in Browsers, Register(b) PROVE OldPasswordIsOut'
  <2> DEFINE new == [revoked |-> FALSE, refresh |-> 0]
  <2>1. new \in ConsoleSession /\ new.refresh = 0
    BY AccountsBounds DEF ConsoleSession
  <2>2. password' = password /\ (sessions' = sessions \/ sessions' = Append(sessions, new))
    BY <1>3 DEF Register
  <2> HIDE DEF new
  <2>3. sessions' = Append(sessions, new) =>
          /\ DOMAIN sessions' = 1..Len(sessions) + 1
          /\ \A i \in 1..Len(sessions) : sessions'[i] = sessions[i]
          /\ sessions'[Len(sessions) + 1] = new
    BY <1>0, <2>1, LenProperties
  <2> QED  BY <1>0, <2>1, <2>2, <2>3
<1>4. ASSUME NEW b \in Browsers, IssueRefresh(b) PROVE OldPasswordIsOut'
  <2> DEFINE i == signing[b].session
             new == [sessions[i] EXCEPT !.refresh = signing[b].given]
  <2>1. signing[b].given = password /\ password' = password
    BY <1>4 DEF IssueRefresh, SignsInWithIt
  <2>2. sessions' = sessions \/ sessions' = [sessions EXCEPT ![i] = new]
    BY <1>4 DEF IssueRefresh
  <2>3. ASSUME NEW j \in DOMAIN sessions, sessions' = [sessions EXCEPT ![i] = new]
        PROVE  sessions'[j].refresh \in {0, password}
    <3>1. sessions[j] \in ConsoleSession
      BY <1>0, ElementOfSeq
    <3> QED  BY <1>0, <2>1, <2>3, <3>1 DEF ConsoleSession
  <2> QED  BY <1>0, <2>1, <2>2, <2>3
<1>5. ASSUME NEW i \in DOMAIN sessions, SignOut(i) PROVE OldPasswordIsOut'
  BY <1>0, <1>5 DEF SignOut
<1>6. CASE UNCHANGED <<password, sessions>>
  BY <1>6
<1> QED
  BY <1>1, <1>2, <1>3, <1>4, <1>5, <1>6
  DEF  GivePassword, LookForSession, Invite, ExpireInvitation, Reissue, RevokeInvitation,
       Redeem, Redeemed, SetEnabled, CreateShare, CancelShare, ActivateShare,
       JoinShare, TakeInvitationBack, Write, LeaveShare, FinalizeLeave,
       DeleteAccount, InviteMember, RemoveMember, AccountsNext, accountsVars, console

\* Where no sign-in is overtaken by a change of the password, the change ends
\* what every browser can refresh, however many signed in at once.
THEOREM ChangedPasswordIsOut ==
    ASSUME ~Overtaken PROVE AccountsSpec => []OldPasswordIsOut
<1>1. AccountsInit => SignsInWithIt /\ OldPasswordIsOut
  BY DEF AccountsInit, SignsInWithIt, OldPasswordIsOut
<1>2. AccountsTypeOK /\ SignsInWithIt /\ OldPasswordIsOut /\ [AccountsNext]_accountsVars
        => (SignsInWithIt /\ OldPasswordIsOut)'
  BY SignsInWithItStep, OldPasswordStep
<1> QED  BY <1>1, <1>2, AccountsTypeCorrect, PTL DEF AccountsSpec

-----------------------------------------------------------------------------
(* The histories.                                                          *)

\* Nobody but the initiator has the folder before joining, so whoever a write
\* reaches has joined; and none but the deletion of the account itself takes a
\* member that came back to where it may be invited.
LEMMA NothingBeforeJoiningStep ==
    ASSUME AccountsTypeOK, NothingBeforeJoining, [AccountsNext]_accountsVars
    PROVE  NothingBeforeJoining'
<1> USE DEF NothingBeforeJoining
<1>0. AccountsTyped /\ Absent
  BY AccountsTypeParts
<1>1. ASSUME NEW p \in People,
             CreateShare(p) \/ CancelShare(p) \/ ActivateShare(p) \/ TakeInvitationBack(p)
                \/ \E u \in People : InviteMember(p, u)
      PROVE  NothingBeforeJoining'
  BY <1>0, <1>1
  DEF CreateShare, CancelShare, ActivateShare, TakeInvitationBack, InviteMember, Commit,
      AccountsTyped
<1>2. ASSUME NEW u \in People, JoinShare(u) \/ FinalizeLeave(u)
      PROVE  NothingBeforeJoining'
  BY <1>0, <1>2 DEF JoinShare, FinalizeLeave, Commit, AccountsTyped
<1>3. ASSUME NEW u \in People, Write(u) PROVE NothingBeforeJoining'
  <2>1. ASSUME NEW v \in People \ {Initiator}, member[v] \in {"none", "invited"}
        PROVE  v \notin Reached(u)
    BY <1>3, <2>1 DEF Write, HasFolder, Joined, Reached, Participants
  <2> QED  BY <1>0, <1>3, <2>1 DEF Write, AccountsTyped
<1>4. ASSUME NEW u \in People, LeaveShare(u) \/ \E p \in People : RemoveMember(p, u)
      PROVE  NothingBeforeJoining'
  BY <1>0, <1>4, DeparturesAreTyped DEF LeaveShare, RemoveMember, Commit
<1>5. ASSUME NEW p \in People, DeleteAccount(p) PROVE NothingBeforeJoining'
  <2> DEFINE begins == people[p] # "deleting" /\ Involved(p)
             m == IF begins THEN Departed(p) ELSE member
  <2>1. /\ m \in [People -> Memberships]
        /\ \A v \in People : m[v] \in {member[v], "finalizing"}
    BY <1>0, DeparturesAreTyped DEF AccountsTyped
  <2>2. \/ member' = m /\ UNCHANGED history
        \/ member' = [m EXCEPT ![p] = "none"] /\ history' = Anonymised(p)
    BY <1>5 DEF DeleteAccount, Commit
  <2> HIDE DEF m
  <2>3. ASSUME NEW u \in People \ {p}, history[u] = <<>> PROVE Anonymised(p)[u] = <<>>
    BY <1>0, <2>3, EmptyWhereNothing
  <2> QED  BY <1>0, <2>1, <2>2, <2>3, AnonymisedHistories
<1>6. CASE UNCHANGED <<member, history>>
  BY <1>6
<1> QED
  BY <1>1, <1>2, <1>3, <1>4, <1>5, <1>6
  DEF AccountsNext, accountsVars, console, replicas, Bootstrap, ChangePassword, GivePassword,
      LookForSession,
      Register, IssueRefresh, SignOut, Invite, ExpireInvitation, Reissue, RevokeInvitation, Redeem,
      SetEnabled

\* What a history keeps over a step, as the property has it of each account.
Outlives(u) ==
  \/ people'[u] = "none"
  \/ member[u] = "finalizing" /\ member'[u] = "left"
  \/ \A i \in DOMAIN history[u] :
       /\ i \in DOMAIN history'[u]
       /\ \/ history'[u][i] = history[u][i]
          \/ history'[u][i] = Tombstone /\ people'[history[u][i]] = "none"

LEMMA HistoryStep ==
    ASSUME AccountsTypeOK, NothingBeforeJoining, AccountsNext, NEW u \in People
    PROVE  Outlives(u)
<1> USE DEF Outlives
<1>0. AccountsTyped /\ history[u] \in Seq(People \cup {Tombstone})
  BY AccountsTypeParts DEF AccountsTyped
<1>1. ASSUME NEW v \in People, JoinShare(v) PROVE Outlives(u)
  <2>1. v = Initiator \/ history[v] = <<>>
    BY <1>1 DEF JoinShare, PendingInvitation, NothingBeforeJoining
  <2>2. CASE u = v
    BY <1>0, <1>1, <2>1, <2>2 DEF JoinShare, AccountsTyped
  <2>3. CASE u # v
    BY <1>0, <1>1, <2>3 DEF JoinShare, AccountsTyped
  <2> QED  BY <2>2, <2>3
<1>2. ASSUME NEW v \in People, Write(v) PROVE Outlives(u)
  <2>1. history'[u] = history[u] \/ history'[u] = Append(history[u], v)
    BY <1>2 DEF Write
  <2>2. \A i \in DOMAIN history[u] : /\ i \in DOMAIN Append(history[u], v)
                                     /\ Append(history[u], v)[i] = history[u][i]
    BY <1>0, LenProperties
  <2> QED  BY <2>1, <2>2
<1>3. ASSUME NEW v \in People, FinalizeLeave(v) PROVE Outlives(u)
  BY <1>0, <1>3 DEF FinalizeLeave, AccountsTyped
<1>4. ASSUME NEW p \in People, DeleteAccount(p) PROVE Outlives(u)
  <2>1. UNCHANGED history \/ (people'[p] = "none" /\ history' = Anonymised(p))
    BY <1>0, <1>4 DEF DeleteAccount, Become, AccountsTyped
  <2>2. CASE history' = Anonymised(p) /\ u # p
    <3>1. \A i \in DOMAIN history[u] :
            /\ i \in DOMAIN history'[u]
            /\ history'[u][i] = IF history[u][i] = p THEN Tombstone ELSE history[u][i]
      BY <1>0, <2>2, AnonymisedHistories
    <3> QED  BY <2>1, <3>1, <2>2
  <2> QED  BY <2>1, <2>2
<1>5. CASE UNCHANGED history
  BY <1>5
<1> QED
  BY <1>1, <1>2, <1>3, <1>4, <1>5
  DEF  Bootstrap, ChangePassword, GivePassword, LookForSession, Register,
       IssueRefresh, SignOut, Invite, ExpireInvitation, Reissue, RevokeInvitation, Redeem,
       SetEnabled, CreateShare, CancelShare, ActivateShare, TakeInvitationBack,
       LeaveShare, InviteMember, RemoveMember, replicas, AccountsNext

\* Nobody's history is shortened or rewritten by another account, whatever
\* shares, invitations, departures and deletions of accounts come in between.
THEOREM NobodyLosesAVersion == AccountsSpec => HistoryOutlivesItsAuthor
<1>1. AccountsInit => NothingBeforeJoining
  BY DEF AccountsInit, NothingBeforeJoining
<1>2. AccountsTypeOK /\ NothingBeforeJoining /\ [AccountsNext]_accountsVars
        => NothingBeforeJoining'
  BY NothingBeforeJoiningStep
<1>3. AccountsTypeOK /\ NothingBeforeJoining /\ [AccountsNext]_accountsVars
        => [\A u \in People : Outlives(u)]_accountsVars
  BY HistoryStep
<1> QED
  BY <1>1, <1>2, <1>3, AccountsTypeCorrect, PTL
  DEF AccountsSpec, HistoryOutlivesItsAuthor, Outlives

=============================================================================
