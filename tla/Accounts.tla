------------------------------ MODULE Accounts ------------------------------
(***************************************************************************)
(* User accounts and the tokens that open them: transactions auth, user    *)
(* and admin with their services and endpoints.  Registering and changing  *)
(* a profile look for conflicts first and write later; between the two     *)
(* other requests commit, and the unique indexes have the last word.       *)
(* Tokens are handed out later, too, for the account as it was read.        *)
(***************************************************************************)
EXTENDS Platform

CONSTANTS Client,    \* requests in progress, side by side
          Email,     \* addresses; unique in table users
          Username,  \* login names; unique in table users; an address may be one
          Admin      \* users with role ADMIN, which no request gives or takes

ASSUME AccountAssumption == None \notin Email \cup Username /\ Admin \subseteq User

VARIABLES
  account,  \* the rows of table users
  pending,  \* per client the request that has passed its checks, or None
  token,    \* the tokens handed out
  outcome   \* how the request that just ended was answered, or None

accountVars == <<account, pending, token, outcome>>

-----------------------------------------------------------------------------
TokenType == {"access", "refresh"}
NoAccount == [state |-> "none", email |-> None, username |-> None]

Exists(u) == account[u].state # "none"
Active(u) == account[u].state = "active"

\* UserRepository.get with an address or a name, over active rows; the user
\* to leave out is an argument the query never gets.
TakenByActive(field, value) ==
  \E v \in User : Active(v) /\ account[v][field] = value

\* get_by_email_or_username with is_active = None.
TakenByAnyone(email, username) ==
  \E v \in User : Exists(v) /\ (account[v].email = email \/ account[v].username = username)

\* Mutant: an index over the active rows only.
UniqueAmongActive(u, email, username) ==
  \A v \in User \ {u} : Active(v) => account[v].email # email /\ account[v].username # username

\* The unique indexes, over every row but the one that is written.
UniqueIn(u, email, username) ==
  \A v \in User \ {u} : Exists(v) => account[v].email # email /\ account[v].username # username

\* Below, "indexed" is whether Elasticsearch took what the service wrote after
\* the commit; if not the request ends with an error.  A document to delete is
\* looked for under the id of the row and never found, with the same end.

\* get_current_user: an active user, still under the address of the token.
\* The type of the token is not looked at.
Opens(t) == Active(t.user) /\ account[t.user].email = t.email

LoggedIn(u) == \E t \in token : t.user = u /\ Opens(t)

Answered(op, u, ok) == outcome' = [op |-> op, user |-> u, ok |-> ok]

-----------------------------------------------------------------------------
\* What is left to do of a request that hands out tokens of account u.
Reading(op, u, email, types) == [op |-> op, user |-> u, email |-> email, types |-> types]

\* _create_token_response: the tokens are for what was read, whatever has
\* become of the account since.
HandOut(c) ==
  LET p == pending[c] IN
  /\ p # None /\ p.op \in {"welcome", "login", "renew"}
  /\ pending' = [pending EXCEPT ![c] = None]
  /\ token' = token \cup {[user |-> p.user, email |-> p.email, type |-> t] : t \in p.types}
  /\ Answered(p.op, p.user, TRUE)
  /\ UNCHANGED account

\* AuthTransaction.register, up to the insert.  A name one registers under is
\* no address; that is left to a change of profile.
Register(c, u, email, username) ==
  /\ pending[c] = None
  /\ username \notin Email
  /\ ~Exists(u)
  /\ \A d \in Client : pending[d] # None => pending[d].user # u   \* a fresh id each
  /\ IF TakenByAnyone(email, username)
     THEN Answered("register", u, FALSE) /\ UNCHANGED pending
     ELSE /\ pending' = [pending EXCEPT ![c] =
               [op |-> "register", user |-> u, email |-> email, username |-> username]]
          /\ outcome' = None
  /\ UNCHANGED <<account, token>>

\* Insert, event and commit; or the unique index refuses.
CommitRegister(c) ==
  LET p == pending[c] IN
  /\ p # None /\ p.op = "register"
  /\ IF UniqueIn(p.user, p.email, p.username)
     THEN /\ account' = [account EXCEPT ![p.user] =
               [state |-> "active", email |-> p.email, username |-> p.username]]
          /\ pending' = [pending EXCEPT ![c] = Reading("welcome", p.user, p.email, TokenType)]
          /\ outcome' = None
     ELSE /\ pending' = [pending EXCEPT ![c] = None]
          /\ Answered("register", p.user, FALSE)
          /\ UNCHANGED account
  /\ UNCHANGED token

\* The new user is not indexed: the account stays, without tokens.
WelcomeFails(c) ==
  /\ pending[c] # None /\ pending[c].op = "welcome"
  /\ pending' = [pending EXCEPT ![c] = None]
  /\ Answered("welcome", pending[c].user, FALSE)
  /\ UNCHANGED <<account, token>>

\* login with the right password: the first of the active rows that have the
\* given name as their address or as their name.  The password fits one's own.
Login(c, u, name) ==
  /\ pending[c] = None
  /\ Active(u) /\ name \in {account[u].email, account[u].username}
  /\ \E v \in User :
       /\ Active(v) /\ name \in {account[v].email, account[v].username}
       /\ IF v = u
          THEN /\ pending' = [pending EXCEPT ![c] = Reading("login", u, account[u].email, TokenType)]
               /\ outcome' = None
          ELSE Answered("login", u, FALSE) /\ UNCHANGED pending
  /\ UNCHANGED <<account, token>>

\* _get_user_from_refresh_token; the tokens that are renewed stay valid.
Renew(c, t, type) ==
  /\ pending[c] = None
  /\ t.type = "refresh"
  /\ Opens(t)
  /\ pending' = [pending EXCEPT ![c] = Reading("renew", t.user, t.email, {type})]
  /\ outcome' = None
  /\ UNCHANGED <<account, token>>

AccessToken(c, t) == Renew(c, t, "access")
RefreshToken(c, t) == Renew(c, t, "refresh")

\* update_my_profile up to the flush; None stands for a field that is left out.
UpdateMyProfile(c, u, email, username) ==
  /\ pending[c] = None
  /\ LoggedIn(u)
  /\ IF TakenByActive("email", email) \/ TakenByActive("username", username)
     THEN Answered("update", u, FALSE) /\ UNCHANGED pending
     ELSE /\ pending' = [pending EXCEPT ![c] =
               [op |-> "update", user |-> u, email |-> email, username |-> username]]
          /\ outcome' = None
  /\ UNCHANGED <<account, token>>

\* Mutant: the fields left out are written as well.
ChangedWhole(u, email, username) ==
  [account[u] EXCEPT !.email = email, !.username = username]

Changed(u, email, username) ==
  [account[u] EXCEPT !.email = IF email = None THEN @ ELSE email,
                     !.username = IF username = None THEN @ ELSE username]

\* Mutant: the row is written as it was read, not just the changed fields.
CommitWholeRow(c) ==
  LET p == pending[c]
      row == Changed(p.user, p.email, p.username)
  IN
  /\ p # None /\ p.op = "update"
  /\ pending' = [pending EXCEPT ![c] = None]
  /\ IF UniqueIn(p.user, row.email, row.username)
     THEN /\ account' = [account EXCEPT ![p.user] = [row EXCEPT !.state = "active"]]
          /\ Answered("update", p.user, TRUE)
     ELSE Answered("update", p.user, FALSE) /\ UNCHANGED account
  /\ UNCHANGED token

\* The changed fields are written, also to a row deleted meanwhile: then the
\* profile is not found again for the answer.
CommitProfile(c) ==
  LET p == pending[c]
      row == Changed(p.user, p.email, p.username)
  IN
  /\ p # None /\ p.op = "update"
  /\ pending' = [pending EXCEPT ![c] = None]
  /\ IF UniqueIn(p.user, row.email, row.username)
     THEN /\ account' = [account EXCEPT ![p.user] = row]
          /\ \E indexed \in BOOLEAN : Answered("update", p.user, Active(p.user) /\ indexed)
     ELSE Answered("update", p.user, FALSE) /\ UNCHANGED account
  /\ UNCHANGED token

DeleteMyProfile(u) ==
  /\ LoggedIn(u)
  /\ account' = [account EXCEPT ![u].state = "inactive"]
  /\ Answered("delete", u, FALSE)
  /\ UNCHANGED <<pending, token>>

\* AdminTransaction.delete_user deletes no row: counting the administrators
\* never returns, and UserRepository.delete looks for a row that is inactive
\* already.  For others the document is not found then.
AdminDeleteUser(a, u) ==
  /\ a \in Admin \ {u}
  /\ LoggedIn(a)
  /\ Answered("admin-delete", u, FALSE)
  /\ UNCHANGED <<account, pending, token>>

-----------------------------------------------------------------------------
AccountInit ==
  /\ account = [u \in User |-> NoAccount]
  /\ pending = [c \in Client |-> None]
  /\ token = {}
  /\ outcome = None

AuthRequest ==
  \E c \in Client :
    \/ \E u \in User, e \in Email, n \in Username : Register(c, u, e, n)
    \/ CommitRegister(c) \/ WelcomeFails(c)
    \/ \E u \in User, name \in Email \cup Username : Login(c, u, name)
    \/ \E t \in token : AccessToken(c, t) \/ RefreshToken(c, t)
    \/ HandOut(c)

ProfileRequest ==
  \/ \E c \in Client :
       \/ CommitProfile(c)
       \/ \E u \in User, e \in Email \cup {None}, n \in Username \cup {None} :
            UpdateMyProfile(c, u, e, n)
  \/ \E u \in User : DeleteMyProfile(u)

AccountNext ==
  \/ AuthRequest
  \/ ProfileRequest
  \/ \E a, u \in User : AdminDeleteUser(a, u)

AccountSpec == AccountInit /\ [][AccountNext]_accountVars

-----------------------------------------------------------------------------
\* What a request in progress is about to do.
Change == [op : {"register", "update"}, user : User, email : Email \cup {None},
           username : Username \cup {None}]
Grant == [op : {"welcome", "login", "renew"}, user : User, email : Email, types : SUBSET TokenType]

AccountTypeOK ==
  /\ account \in [User -> {NoAccount} \cup
                    [state : {"active", "inactive"}, email : Email, username : Username]]
  /\ pending \in [Client -> Change \cup Grant \cup {None}]
  /\ token \subseteq [user : User, email : Email, type : TokenType]
  /\ outcome = None \/ outcome \in
       [op : {"register", "welcome", "login", "renew", "update", "delete", "admin-delete"},
        user : User, ok : BOOLEAN]

(* However registrations and changes of profile race, no two accounts ever  *)
(* share an address or a name, deleted accounts included.  The name of one  *)
(* may well be the address of another (AuthTransaction.register,            *)
(* UserTransaction.update_my_profile).                                      *)
OneAccountEach ==
  \A u, v \in User :
    Exists(u) /\ Exists(v) /\ (account[u].email = account[v].email
                                 \/ account[u].username = account[v].username) => u = v

(* A deleted account stays deleted, and so closed to all its tokens, those  *)
(* included that a request under way still hands out, though a change of    *)
(* profile that was under way may still be written to it                    *)
(* (UserTransaction, AuthenticationService).                                *)
StaysDeleted ==
  [][\A u \in User : account[u].state = "inactive" =>
       account'[u].state = "inactive" /\ ~LoggedIn(u)']_accountVars
=============================================================================
