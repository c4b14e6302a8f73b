-------------------------------- MODULE Accounts --------------------------------
(***************************************************************************)
(* Accounts, passwords, sessions and saved credentials                     *)
(* (reviewer/accounts/service.py, credentials.py; api/accounts.py,         *)
(* api/profile.py).  A request is let in by its session, then awaits a     *)
(* password hash or its turn, and only then runs its transaction; other    *)
(* requests run between.  Management takes one lock for all accounts, every *)
(* transaction the row of the account it is about.                         *)
(*                                                                         *)
(* A password is the number it was set as, 0 for none; whoever sets a      *)
(* password may still have its session or its request under way when the   *)
(* next is set.  Sessions that say the same are one, and so are the        *)
(* versions and integrations of an account's credentials, which are always *)
(* revoked together.  Clocks only make tokens and sessions vanish; the     *)
(* counting of failed logins is left out.                                  *)
(***************************************************************************)
EXTENDS Naturals, FiniteSets

CONSTANTS
  Users,         \* logins
  MaxPasswords,  \* bound: passwords ever set
  MaxRequests    \* bound: requests under way

ASSUME AccountsAssumption == MaxPasswords \in Nat /\ MaxRequests \in Nat

VARIABLES
  account,     \* each login's account
  tokens,      \* accounts with an activation outstanding
  sessions,    \* open sessions, with the password and role they were opened with
  saved,       \* accounts with active credentials
  passwords,   \* passwords set so far
  requests,    \* management requests let in
  managing,    \* management transactions under way, each with its locks
  activating,  \* activations that hold the lock of their token's row
  logins,      \* logins whose password was right when it was looked at
  changes,     \* password changes, the same
  saving       \* accounts whose request to save a credential was let in

people == <<account, sessions, saved, passwords>>
flights == <<logins, changes, saving>>
accountsVars == <<account, tokens, sessions, saved, passwords, requests, managing, activating,
                  logins, changes, saving>>

Roles == {"admin", "user"}
Withdrawals == {"demote", "disable", "remove"}
Actions == Withdrawals \cup {"promote", "enable", "recovery", "revoke_sessions"}
Accounts == [state : {"none", "active", "disabled", "removed"}, role : Roles, password : Nat]
Keys == [user : Users, password : Nat, role : Roles]
Jobs == [user : Users, action : Actions]

\* Bound: one more request may come in.
Room ==
    Cardinality(requests) + Cardinality(logins) + Cardinality(changes) + Cardinality(saving)
        < MaxRequests

Admin(u) == account[u].state = "active" /\ account[u].role = "admin"
Exists(u) == account[u].state # "none"
Eligible(u) ==
    account[u].state = "active" /\ account[u].role = "user" /\ account[u].password # 0
AsAdmin == \E s \in sessions : s.role = "admin"
AsUser(u) == \E s \in sessions : s.user = u /\ s.role = "user"
RowLocked(u) == \E m \in managing : m.user = u
-------------------------------------------------------------------------------
(* Accounts *)

\* Mutant: only the row of the account is locked.
OnlyTheRow(u) == ~RowLocked(u)

\* lock_accounts(): one management transaction at a time.
Free(u) == managing = {}

Open(u, role) ==
    /\ account' = [account EXCEPT ![u] = [state |-> "active", role |-> role, password |-> 0]]
    /\ tokens' = tokens \cup {u}
    /\ UNCHANGED <<sessions, saved, passwords, requests, managing, activating, flights>>

Bootstrap(u) == Free(u) /\ (\A v \in Users : ~Exists(v)) /\ Open(u, "admin")

Create(u, role) == AsAdmin /\ Free(u) /\ ~Exists(u) /\ Open(u, role)

\* An activation locks its token, then its account ...
StartActivation(u) ==
    /\ u \in tokens \ activating
    /\ activating' = activating \cup {u}
    /\ UNCHANGED <<people, tokens, requests, managing, flights>>

\* ... and sets the password, if the account is still active.
Activate(u) ==
    /\ u \in activating /\ ~RowLocked(u) /\ passwords < MaxPasswords
    /\ activating' = activating \ {u}
    /\ IF account[u].state = "active"
       THEN /\ passwords' = passwords + 1
            /\ account' = [account EXCEPT ![u].password = passwords + 1]
            /\ sessions' = {s \in sessions : s.user # u}
            /\ tokens' = tokens \ {u}
       ELSE UNCHANGED <<account, sessions, tokens, passwords>>
    /\ UNCHANGED <<saved, requests, managing, flights>>

\* It waits for a manager that waits for it, and the database gives it up.
GiveUp(u) ==
    /\ u \in activating /\ RowLocked(u)
    /\ activating' = activating \ {u}
    /\ UNCHANGED <<people, tokens, requests, managing, flights>>

ExpireToken(u) ==
    /\ u \in tokens \ activating
    /\ tokens' = tokens \ {u}
    /\ UNCHANGED <<people, requests, managing, activating, flights>>
-------------------------------------------------------------------------------
(* Management *)

Ask(r) ==
    /\ AsAdmin /\ r \notin requests /\ Room
    /\ requests' = requests \cup {r}
    /\ UNCHANGED <<people, tokens, managing, activating, flights>>

\* The last active admin is neither demoted nor disabled nor removed.
Allowed(r) ==
    /\ account[r.user].state \in {"active", "disabled"}
    /\ Admin(r.user) /\ r.action \in Withdrawals => \E v \in Users \ {r.user} : Admin(v)

BeginManage(r) ==
    /\ r \in requests /\ Free(r.user)
    /\ requests' = requests \ {r}
    /\ managing' = IF Allowed(r) THEN managing \cup {r} ELSE managing
    /\ UNCHANGED <<people, tokens, activating, flights>>

Managed(a, action) ==
    CASE action = "promote" -> [a EXCEPT !.role = "admin"]
      [] action = "demote" -> [a EXCEPT !.role = "user"]
      [] action = "enable" -> [a EXCEPT !.state = "active"]
      [] action = "disable" -> [a EXCEPT !.state = "disabled"]
      [] action = "recovery" -> [a EXCEPT !.password = 0]
      [] action = "remove" -> [state |-> "removed", role |-> a.role, password |-> 0]
      [] action = "revoke_sessions" -> a

\* Every action revokes the account's sessions and tokens; recovery issues another.
CommitManage(m) ==
    /\ m \in managing /\ m.user \notin activating
    /\ managing' = managing \ {m}
    /\ account' = [account EXCEPT ![m.user] = Managed(@, m.action)]
    /\ sessions' = {s \in sessions : s.user # m.user}
    /\ tokens' = IF m.action = "recovery" THEN tokens \cup {m.user} ELSE tokens \ {m.user}
    /\ saved' = IF m.action \in {"recovery", "remove"} THEN saved \ {m.user} ELSE saved
    /\ UNCHANGED <<passwords, requests, activating, flights>>
-------------------------------------------------------------------------------
(* Sessions and passwords *)

Key(u) == [user |-> u, password |-> account[u].password, role |-> account[u].role]
Current(k) == account[k.user].state = "active" /\ k = Key(k.user)

VerifyLogin(u) ==
    /\ account[u].state = "active" /\ account[u].password # 0 /\ Room
    /\ logins' = logins \cup {Key(u)}
    /\ UNCHANGED <<people, tokens, requests, managing, activating, changes, saving>>

\* Mutant: a password that was right is right.
LoginAnyway(k) ==
    /\ k \in logins /\ ~RowLocked(k.user)
    /\ logins' = logins \ {k}
    /\ sessions' = sessions \cup {k}
    /\ UNCHANGED <<account, saved, passwords, tokens, requests, managing, activating, changes, saving>>

\* A session opens if nothing has changed since the password was looked at; it
\* replaces the browser's earlier one.
Login(k) ==
    /\ k \in logins /\ ~RowLocked(k.user)
    /\ logins' = logins \ {k}
    /\ IF Current(k)
       THEN \E old \in SUBSET sessions : Cardinality(old) <= 1 /\ sessions' = (sessions \ old) \cup {k}
       ELSE UNCHANGED sessions
    /\ UNCHANGED <<account, saved, passwords, tokens, requests, managing, activating, changes, saving>>

\* Logged out, or twelve hours old.
EndSession(s) ==
    /\ s \in sessions /\ sessions' = sessions \ {s}
    /\ UNCHANGED <<account, saved, passwords, tokens, requests, managing, activating, flights>>

AskChange(u) ==
    /\ (\E s \in sessions : s.user = u) /\ Room
    /\ changes' = changes \cup {Key(u)}
    /\ UNCHANGED <<people, tokens, requests, managing, activating, logins, saving>>

\* The current password was right; if it still is, the new one ends all sessions.
ChangePassword(k) ==
    /\ k \in changes /\ ~RowLocked(k.user) /\ passwords < MaxPasswords
    /\ changes' = changes \ {k}
    /\ IF account[k.user].state = "active" /\ account[k.user].password = k.password
       THEN /\ passwords' = passwords + 1
            /\ account' = [account EXCEPT ![k.user].password = passwords + 1]
            /\ sessions' = {s \in sessions : s.user # k.user}
       ELSE UNCHANGED <<account, sessions, passwords>>
    /\ UNCHANGED <<saved, tokens, requests, managing, activating, logins, saving>>
-------------------------------------------------------------------------------
(* Credentials *)

AskSave(u) ==
    /\ AsUser(u) /\ u \notin saving /\ Room
    /\ saving' = saving \cup {u}
    /\ UNCHANGED <<people, tokens, requests, managing, activating, logins, changes>>

\* Mutant: the session that let the request in is enough.
SaveAnyway(u) ==
    /\ u \in saving /\ ~RowLocked(u) /\ saving' = saving \ {u}
    /\ saved' = saved \cup {u}
    /\ UNCHANGED <<account, sessions, passwords, tokens, requests, managing, activating, logins, changes>>

Save(u) ==
    /\ u \in saving /\ ~RowLocked(u) /\ saving' = saving \ {u}
    /\ saved' = IF Eligible(u) THEN saved \cup {u} ELSE saved
    /\ UNCHANGED <<account, sessions, passwords, tokens, requests, managing, activating, logins, changes>>

Revoke(u) ==
    /\ AsUser(u) /\ ~RowLocked(u) /\ Eligible(u)
    /\ saved' = saved \ {u}
    /\ UNCHANGED <<account, sessions, passwords, tokens, requests, managing, activating, flights>>
-------------------------------------------------------------------------------
AccountsTypeOK ==
    /\ account \in [Users -> Accounts]
    /\ tokens \subseteq Users /\ saved \subseteq Users /\ saving \subseteq Users
    /\ activating \subseteq tokens
    /\ sessions \subseteq Keys /\ logins \subseteq Keys /\ changes \subseteq Keys
    /\ requests \subseteq Jobs /\ managing \subseteq Jobs
    /\ passwords \in Nat

AccountsInit ==
    /\ account = [u \in Users |-> [state |-> "none", role |-> "user", password |-> 0]]
    /\ tokens = {} /\ sessions = {} /\ saved = {} /\ passwords = 0
    /\ requests = {} /\ managing = {} /\ activating = {}
    /\ logins = {} /\ changes = {} /\ saving = {}

AccountsNext ==
    \/ \E u \in Users :
         \/ Bootstrap(u) \/ \E role \in Roles : Create(u, role)
         \/ StartActivation(u) \/ Activate(u) \/ GiveUp(u) \/ ExpireToken(u)
         \/ VerifyLogin(u) \/ AskChange(u) \/ AskSave(u) \/ Save(u) \/ Revoke(u)
    \/ \E r \in Jobs : Ask(r) \/ BeginManage(r)
    \/ \E m \in managing : CommitManage(m)
    \/ \E k \in logins : Login(k)
    \/ \E s \in sessions : EndSession(s)
    \/ \E k \in changes : ChangePassword(k)

AccountsSpec == AccountsInit /\ [][AccountsNext]_accountsVars
-------------------------------------------------------------------------------
(* Properties *)

\* README:687: once there is an account there is an active admin, although each
\* demotion and removal looks at the others only before it is made.
LastAdmin == (\E u \in Users : Exists(u)) => \E u \in Users : Admin(u)

\* README:673: an open session belongs to an active account and was opened with
\* its present password and role; a login under way when they changed opens none.
SessionsAreCurrent == \A s \in sessions : Current(s)

\* README:685: an account with active credentials has a password its owner set
\* and is not removed: recovery and removal leave none, nor does a save under way.
CredentialsNeedOwner ==
    \A u \in saved : account[u].state \in {"active", "disabled"} /\ account[u].password # 0
===============================================================================
