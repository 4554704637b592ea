------------------------------- MODULE Accounts -------------------------------
(***************************************************************************)
(* The accounts of a server: the console account and its sessions, people  *)
(* invited, switched off and deleted, and the one share their histories    *)
(* run together in.                                                        *)
(*                                                                         *)
(* Deleting an account is a procedure of several statements over rows the  *)
(* schema guards.  A transaction here computes the share and the           *)
(* memberships it would leave, and commits only if every rule of the       *)
(* schema lets it.  A history is the sequence of the authors of its        *)
(* versions; contents, names and keys are left out.                        *)
(*                                                                         *)
(* Its proofs are read beside those of Access, whose names are plain: the  *)
(* definitions both would have are called after the accounts here.         *)
(***************************************************************************)
EXTENDS Naturals, Sequences, FiniteSets, SequencesExt

CONSTANTS People,        \* logins an administrator may invite
          Initiator,     \* the one who may share a folder
          Browsers,      \* consoles a sign-in can be under way in
          Overtaken,     \* whether a password may change under a sign-in
          Ceiling,       \* participants of a share, invitations included
          MaxPasswords,  \* bound on passwords of the console account
          MaxSessions,   \* bound on device rows of the console account
          MaxVersions,   \* bound on the versions of a history
          MaxAccountTurns, \* bound on sign-ins, switches and invitations issued
          Tombstone, NoSignIn

ASSUME InitiatorIsOne == Initiator \in People /\ Tombstone \notin People
ASSUME AccountsBounds ==
  /\ {Ceiling, MaxSessions, MaxVersions, MaxAccountTurns} \subseteq Nat
  /\ MaxPasswords \in Nat \ {0}

VARIABLES password,  \* of the console account; 0 until the first run
          sessions,  \* devices of the console account, in the order they were made
          signing,   \* what a browser's sign-in has found out so far
          people,    \* users.state of each login; "none" where no row is
          share,     \* the state of the share
          member,    \* share_members of each account
          history,   \* the authors of the versions of the folder's file, by vault
          turns

console == <<password, sessions, signing>>
replicas == <<share, member, history>>
accountsVars == <<console, people, replicas, turns>>

States == {"none", "provisioned", "expired", "active", "disabled", "deleting"}
Memberships == {"none", "invited", "joined", "finalizing", "left"}

\* `refresh` is the password its refresh token was given for, 0 without a token.
ConsoleSession == [revoked : BOOLEAN, refresh : 0..MaxPasswords]
SignIn == [given : 1..MaxPasswords, at : {"known", "looked", "registered"},
           session : 0..MaxSessions]

\* Every variable has its type.  A refresh token is on a device that is still
\* signed in, and an account that is not there is in no share and keeps no
\* history: what is deleted takes its rows with it.
AccountsTypeOK ==
  /\ password \in 0..MaxPasswords /\ turns \in 0..MaxAccountTurns
  /\ sessions \in Seq(ConsoleSession) /\ Len(sessions) <= MaxSessions
  /\ \A i \in DOMAIN sessions : sessions[i].revoked => sessions[i].refresh = 0
  /\ signing \in [Browsers -> SignIn \cup {NoSignIn}]
  /\ people \in [People -> States]
  /\ share \in {"none", "preparing", "active", "ended", "cancelled"}
  /\ member \in [People -> Memberships]
  /\ history \in [People -> Seq(People \cup {Tombstone})]
  /\ \A p \in People : people[p] \in {"none", "provisioned", "expired"} =>
       member[p] = "none" /\ history[p] = <<>>

AccountsInit ==
  /\ password = 0 /\ sessions = <<>> /\ signing = [b \in Browsers |-> NoSignIn]
  /\ people = [p \in People |-> "none"]
  /\ share = "none" /\ member = [p \in People |-> "none"]
  /\ history = [p \in People |-> <<>>]
  /\ turns = 0

-----------------------------------------------------------------------------
(* The console account.                                                    *)

\* One more of the bounded things a run may start.
MayTurn == turns < MaxAccountTurns /\ turns' = turns + 1

\* requireAdmin: an active administrator on a device that is not revoked.
Administered == password > 0 /\ \E i \in DOMAIN sessions : ~sessions[i].revoked

\* setFirstPassword: the statement that sets it leaves the state it matches on.
Bootstrap ==
  /\ password = 0
  /\ password' = 1
  /\ UNCHANGED <<sessions, signing, people, replicas, turns>>

\* consoleSignIn, once the password given is the one there is.
GivePassword(b) ==
  /\ password > 0 /\ signing[b] = NoSignIn /\ MayTurn
  /\ signing' = [signing EXCEPT ![b] = [given |-> password, at |-> "known", session |-> 0]]
  /\ UNCHANGED <<password, sessions, people, replicas>>

SignedIn == {i \in DOMAIN sessions : ~sessions[i].revoked}

\* One device for every browser: one that is there, or 0 for one to be made.
LookForSession(b) ==
  /\ signing[b] # NoSignIn /\ signing[b].at = "known"
  /\ \E i \in IF SignedIn = {} THEN {0} ELSE SignedIn :
       signing' = [signing EXCEPT ![b].at = "looked", ![b].session = i]
  /\ UNCHANGED <<password, sessions, people, replicas, turns>>

Register(b) ==
  /\ signing[b] # NoSignIn /\ signing[b].at = "looked"
  /\ IF signing[b].session = 0
     THEN /\ Len(sessions) < MaxSessions
          /\ sessions' = Append(sessions, [revoked |-> FALSE, refresh |-> 0])
     ELSE UNCHANGED sessions
  /\ signing' = [signing EXCEPT ![b].at = "registered",
       ![b].session = IF @ = 0 THEN Len(sessions) + 1 ELSE @]
  /\ UNCHANGED <<password, people, replicas, turns>>

\* issueRefreshToken: nothing is given to a device revoked meanwhile.
IssueRefresh(b) ==
  /\ signing[b] # NoSignIn /\ signing[b].at = "registered"
  /\ LET i == signing[b].session
     IN sessions' = IF sessions[i].revoked THEN sessions
                    ELSE [sessions EXCEPT ![i].refresh = signing[b].given]
  /\ signing' = [signing EXCEPT ![b] = NoSignIn]
  /\ UNCHANGED <<password, people, replicas, turns>>

\* Mutant: only the session made last is ended.
ClearedLast == [i \in DOMAIN sessions |->
  IF i < Len(sessions) THEN sessions[i] ELSE [sessions[i] EXCEPT !.refresh = 0]]

\* Every console device of the account loses its token; none is retired.
Cleared == [i \in DOMAIN sessions |-> [sessions[i] EXCEPT !.refresh = 0]]

ChangePassword ==
  /\ Administered /\ password < MaxPasswords
  /\ Overtaken \/ \A b \in Browsers : signing[b] = NoSignIn
  /\ password' = password + 1
  /\ sessions' = Cleared
  /\ UNCHANGED <<signing, people, replicas, turns>>

\* Signing the console out revokes its device.
SignOut(i) ==
  /\ ~sessions[i].revoked
  /\ sessions' = [sessions EXCEPT ![i] = [revoked |-> TRUE, refresh |-> 0]]
  /\ UNCHANGED <<password, signing, people, replicas, turns>>

-----------------------------------------------------------------------------
(* Invitations to the server.                                              *)

Become(p, state) == people' = [people EXCEPT ![p] = state]

\* The row is the invitation, and a login is one row.
Invite(p) ==
  /\ Administered /\ people[p] = "none" /\ MayTurn
  /\ Become(p, "provisioned")
  /\ UNCHANGED <<console, replicas>>

ExpireInvitation(p) ==
  /\ people[p] = "provisioned"
  /\ Become(p, "expired")
  /\ UNCHANGED <<console, replicas, turns>>

\* An invitation nobody took up, its days spent or not, is the one row that may
\* go without the procedure: it never held anything.
Unclaimed(p) == people[p] \in {"provisioned", "expired"}

Reissue(p) ==
  /\ Administered /\ Unclaimed(p) /\ MayTurn
  /\ Become(p, "provisioned")
  /\ UNCHANGED <<console, replicas>>

RevokeInvitation(p) ==
  /\ Administered /\ Unclaimed(p)
  /\ Become(p, "none")
  /\ UNCHANGED <<console, replicas, turns>>

\* redeemInvitation: keys, a vault and a device, or nothing.
Redeemed(p) == people[p] = "provisioned" /\ Become(p, "active")

\* POST /auth/redeem: a token that is not there, spent or expired has one answer.
Redeem(p) ==
  /\ Redeemed(p)
  /\ UNCHANGED <<console, replicas, turns>>

\* setEnabled: an invitation or a deletion is not switched.
SetEnabled(p, enabled) ==
  /\ Administered /\ people[p] \in {"active", "disabled"} /\ MayTurn
  /\ Become(p, IF enabled THEN "active" ELSE "disabled")
  /\ UNCHANGED <<console, replicas>>

-----------------------------------------------------------------------------
(* What the schema lets a transaction leave: `s` and `m` are the share and *)
(* the memberships after it.                                               *)

Terminal(s) == s \in {"cancelled", "ended"}

MovesForward(s) ==
  s # share => <<share, s>> \in {<<"none", "preparing">>, <<"preparing", "active">>,
                                 <<"preparing", "cancelled">>, <<"active", "ended">>}

\* Nobody is still a participant of a share that is over.
EndedIsEmpty(s, m) == Terminal(s) => \A u \in People : m[u] # "joined"

\* Nobody begins to go who never came.
FinalizationAfterJoin(m) ==
  \A u \in People : m[u] = "finalizing" => member[u] \in {"joined", "finalizing"}

InitiatorStays(s, m) == ~Terminal(s) /\ member[Initiator] = "joined" => m[Initiator] = "joined"

\* Inviting and joining are for an active share; who opens it is in it.
JoinedWhileActive(s, m) ==
  \A u \in People \ {Initiator} :
    m[u] # member[u] /\ m[u] \in {"invited", "joined"} => s = "active"

UnderCeiling(m) == Cardinality({u \in People : m[u] \in {"invited", "joined"}}) <= Ceiling

Allowed(s, m) ==
  /\ MovesForward(s) /\ EndedIsEmpty(s, m) /\ FinalizationAfterJoin(m)
  /\ InitiatorStays(s, m) /\ JoinedWhileActive(s, m) /\ UnderCeiling(m)

\* owned_rows_require_active_user: whose vault may be written to.
Writable(u) == people[u] \in {"active", "deleting"}

Commit(s, m) == Allowed(s, m) /\ share' = s /\ member' = m

-----------------------------------------------------------------------------
(* The share, as far as accounts come and go in it.                        *)

CreateShare(p) ==
  /\ p = Initiator /\ people[p] = "active" /\ share = "none"
  /\ Commit("preparing", [member EXCEPT ![p] = "joined"])
  /\ UNCHANGED <<console, people, history, turns>>

CancelShare(p) ==
  /\ p = Initiator /\ people[p] = "active" /\ share = "preparing"
  /\ Commit("cancelled", [member EXCEPT ![p] = "left"])
  /\ UNCHANGED <<console, people, history, turns>>

ActivateShare(p) ==
  /\ p = Initiator /\ people[p] = "active" /\ share = "preparing"
  /\ Commit("active", member)
  /\ UNCHANGED <<console, people, history, turns>>

\* A person asked is any account with a key, whatever its state has become.
HoldsKeys(u) == people[u] \in {"active", "disabled", "deleting"}

InviteMember(p, u) ==
  /\ p = Initiator /\ people[p] = "active" /\ share = "active"
  /\ HoldsKeys(u) /\ member[u] = "none"
  /\ Commit(share, [member EXCEPT ![u] = "invited"])
  /\ UNCHANGED <<console, people, history, turns>>

\* Declined or withdrawn: the row is deleted.
TakeInvitationBack(u) ==
  /\ member[u] = "invited"
  /\ people[u] = "active" \/ people[Initiator] = "active"
  /\ Commit(share, [member EXCEPT ![u] = "none"])
  /\ UNCHANGED <<console, people, history, turns>>

\* listShares: what waits for an answer, and what a member may still act on, an
\* ended share included until its last pass.
PendingInvitation(u) == member[u] = "invited" /\ share = "active"
Joined(u) == member[u] \in {"joined", "finalizing"}

\* The copy arrives with the past the initiator keeps of it.
JoinShare(u) ==
  /\ people[u] = "active" /\ PendingInvitation(u)
  /\ Commit(share, [member EXCEPT ![u] = "joined"])
  /\ history' = [history EXCEPT ![u] = history[Initiator]]
  /\ UNCHANGED <<console, people, turns>>

HasFolder(u) == Joined(u) \/ member[u] = "left" \/ (u = Initiator /\ share = "none")

Participants == {u \in People : member[u] = "joined"}
Reached(u) == {u} \cup (IF Joined(u) THEN Participants ELSE {})

\* One version here and in every live copy.  Disabled participants are reached
\* as others are, and their vaults refuse the whole write.
Write(u) ==
  /\ people[u] = "active" /\ HasFolder(u)
  /\ \A v \in Reached(u) : Writable(v) /\ Len(history[v]) < MaxVersions
  /\ history' = [v \in People |-> IF v \in Reached(u) THEN Append(history[v], u)
                                  ELSE history[v]]
  /\ UNCHANGED <<console, people, share, member, turns>>

-----------------------------------------------------------------------------
(* Departures.                                                             *)

\* departMember: the initiator's departure ends the share for everybody, and
\* so does the last participant's.
Ends(u) == u = Initiator \/ Participants \subseteq {u, Initiator}

Over(u) == CASE ~Ends(u) -> share
             [] Ends(u) /\ share = "preparing" -> "cancelled"
             [] Ends(u) /\ share # "preparing" -> "ended"

\* All that has not begun to go begins to, when the share ends; else one row.
Going(u) == IF Ends(u) THEN {v \in People : member[v] \in {"invited", "joined"}}
            ELSE {u} \cap {v \in People : member[v] \in {"invited", "joined"}}
Departed(u) == [v \in People |-> IF v \in Going(u) THEN "finalizing" ELSE member[v]]

LeaveShare(u) ==
  /\ people[u] = "active" /\ member[u] = "joined"
  /\ Commit(Over(u), Departed(u))
  /\ UNCHANGED <<console, people, history, turns>>

RemoveMember(p, u) ==
  /\ p = Initiator /\ people[p] = "active" /\ u # p /\ member[u] = "joined"
  /\ Commit(Over(u), Departed(u))
  /\ UNCHANGED <<console, people, history, turns>>

\* finalizeLeave: an added participant keeps the file alone.  Its vault is
\* written to, and only its own client can have asked.
FinalizeLeave(u) ==
  /\ people[u] = "active" /\ member[u] = "finalizing"
  /\ member' = [member EXCEPT ![u] = "left"]
  /\ history' = [history EXCEPT ![u] = IF u = Initiator THEN @ ELSE <<>>]
  /\ UNCHANGED <<console, people, share, turns>>

-----------------------------------------------------------------------------
(* The deletion of an account.                                             *)

Present(m, u) == m[u] \in {"invited", "joined", "finalizing"}

\* Whether a share that is not over still counts it among its own.
Involved(p) == Present(member, p) /\ ~Terminal(share)

\* OUTSTANDING: who has a copy of a folder of its still to be converted.
Outstanding(p, m) ==
  IF p = Initiator /\ share # "none" THEN {u \in People \ {p} : Present(m, u)} ELSE {}

\* Mutant: what the account wrote goes with it, in every vault.
Erased(p) == [u \in People |->
  IF u = p THEN <<>> ELSE SelectSeq(history[u], LAMBDA a : a # p)]

\* Mutant: the authorship moves and the tree stays.
OnlyAnonymised(p) == [u \in People |->
  [i \in DOMAIN history[u] |-> IF history[u][i] = p THEN Tombstone ELSE history[u][i]]]

\* Authorship goes to the tombstone first, then the vaults go.
Anonymised(p) == [u \in People |->
  IF u = p THEN <<>>
  ELSE [i \in DOMAIN history[u] |-> IF history[u][i] = p THEN Tombstone ELSE history[u][i]]]

\* The foreign key of `shares` holds the root of a share, whatever its state.
RootIsHeld(p) == p = Initiator /\ share # "none"

\* share_members_reject_early_delete, for the row the cascade reaches.
RowMayGo(p, s, m) == m[p] \in {"none", "invited", "left"} \/ Terminal(s)

\* begin, and what of the procedure its transaction reaches: the wait for
\* others, or the end; refused, the account is as it was.
DeleteAccount(p) ==
  LET begins == people[p] # "deleting" /\ Involved(p)
      s == IF begins THEN Over(p) ELSE share
      m == IF begins THEN Departed(p) ELSE member
      awaited == Outstanding(p, m)
  IN /\ Administered /\ people[p] \in {"active", "disabled", "deleting"}
     /\ \/ /\ awaited # {}
           /\ Commit(s, m)
           /\ Become(p, "deleting")
           /\ UNCHANGED history
        \/ /\ awaited = {} /\ Allowed(s, m)
           /\ ~RootIsHeld(p) /\ RowMayGo(p, s, m)
           /\ share' = s /\ member' = [m EXCEPT ![p] = "none"]
           /\ Become(p, "none")
           /\ history' = Anonymised(p)
     /\ UNCHANGED <<console, turns>>

-----------------------------------------------------------------------------
AccountsNext ==
  \/ Bootstrap \/ ChangePassword
  \/ \E b \in Browsers : GivePassword(b) \/ LookForSession(b) \/ Register(b) \/ IssueRefresh(b)
  \/ \E i \in DOMAIN sessions : SignOut(i)
  \/ \E p \in People :
       \/ Invite(p) \/ ExpireInvitation(p) \/ Reissue(p) \/ RevokeInvitation(p) \/ Redeem(p)
       \/ \E enabled \in BOOLEAN : SetEnabled(p, enabled)
       \/ CreateShare(p) \/ CancelShare(p) \/ ActivateShare(p)
       \/ JoinShare(p) \/ TakeInvitationBack(p) \/ Write(p)
       \/ LeaveShare(p) \/ FinalizeLeave(p) \/ DeleteAccount(p)
       \/ \E u \in People : InviteMember(p, u) \/ RemoveMember(p, u)

AccountsSpec == AccountsInit /\ [][AccountsNext]_accountsVars

-----------------------------------------------------------------------------
(* Properties.                                                             *)

\* A session outlives a password only for the minutes of its access token: no
\* browser can go on refreshing what a password that was changed had opened,
\* however many browsers signed in at once and made a device each.
OldPasswordIsOut == \A i \in DOMAIN sessions : sessions[i].refresh \in {0, password}

\* Nobody's history is shortened or rewritten by another account: a version goes
\* with its vault or with its owner's own last pass, and changes its author only
\* to the tombstone, when the author is gone.
HistoryOutlivesItsAuthor ==
  [][\A u \in People :
       \/ people'[u] = "none"
       \/ member[u] = "finalizing" /\ member'[u] = "left"
       \/ \A i \in DOMAIN history[u] :
            /\ i \in DOMAIN history'[u]
            /\ \/ history'[u][i] = history[u][i]
               \/ history'[u][i] = Tombstone /\ people'[history[u][i]] = "none"]_accountsVars
=============================================================================
